---- MODULE Spec2Model ----
(***************************************************************************)
(* Poststratification table builder: the recode helpers                    *)
(* (recodeAge, recodeRace, recodeEducation, getRegion, fipsToState,        *)
(* parseDistrict), buildPoststratTable and deleteTable of                  *)
(* lib/tableBuilder.js, fetchACS1Year of lib/censusClient.js, and the      *)
(* admin routes of server.js.                                              *)
(*                                                                         *)
(* Spec is one call of buildPoststratTable on an empty table, BulkSpec one *)
(* call on inputs that fill more than one batch, SkipSpec one call on      *)
(* records that fail at each statement of the try block, ServerSpec the    *)
(* server answering build and delete requests, InterleavedSpec a delete    *)
(* request during a build of more than one batch, FetchSpec one call of    *)
(* fetchACS1Year.                                                          *)
(*                                                                         *)
(* JavaScript values are tagged records, JavaScript strings are TLA+       *)
(* strings, and the doubles of the proportional allocation are modelled    *)
(* bit-exactly (53-bit significand held in four 14-bit limbs).             *)
(***************************************************************************)
EXTENDS Integers, Sequences, FiniteSets, TLC

(***************************************************************************)
(* Bounds of the model                                                     *)
(***************************************************************************)
\* longest input sequence of raw geography records
MaxRows == 2

\* number of districts with every count present in a bulk input: with 300
\* cells each they fill more than one batch of 5000
DenseDistricts == 17

\* number of requests the server receives
MaxRequests == 2

\* number of districts the Census API knows, and the most rows of one of
\* its responses
MaxGeographies == 3
MaxApiRows == 2

(***************************************************************************)
(* JavaScript values                                                       *)
(***************************************************************************)
Undefined == [t |-> "undefined"]
Null == [t |-> "null"]
Str(s) == [t |-> "string", s |-> s]
Num(n) == [t |-> "number", n |-> n]
NaN == [t |-> "NaN"]
PosInfinity == [t |-> "Infinity"]
NegInfinity == [t |-> "-Infinity"]
Fn(name) == [t |-> "function", name |-> name]
Obj(fields) == [t |-> "object", f |-> fields]
Arr(items) == [t |-> "array", v |-> items]

\* a completed call: a returned value, or a thrown Error / TypeError
Return(v) == [ok |-> TRUE, v |-> v]
Throw(msg) == [ok |-> FALSE, err |-> msg]

\* members every object literal inherits from Object.prototype
ProtoFunctions == {"constructor", "toString", "valueOf", "hasOwnProperty"}

\* ToBoolean of the values a raw record can hold
Truthy(v) ==
  CASE v.t = "undefined" -> FALSE
    [] v.t = "null" -> FALSE
    [] v.t = "NaN" -> FALSE
    [] v.t = "string" -> v.s # ""
    [] v.t = "number" -> v.n # 0
    [] OTHER -> TRUE

\* ToString, as applied by template literals and property keys
ToStringJS(v) ==
  CASE v.t = "string" -> v.s
    [] v.t = "number" -> ToString(v.n)
    [] v.t = "function" -> "function " \o v.name \o "() { [native code] }"
    [] v.t = "object" -> "[object Object]"
    [] OTHER -> v.t

\* row[key]: reading a property of null or undefined is a TypeError, a
\* primitive has no such property, an object answers with its own field
Get(row, key) ==
  CASE row.t \in {"undefined", "null"} ->
         Throw("Cannot read properties of " \o row.t \o " (reading '" \o key \o "')")
    [] row.t = "object" ->
         Return(IF key \in DOMAIN row.f THEN row.f[key] ELSE Undefined)
    [] OTHER -> Return(Undefined)

(***************************************************************************)
(* parseInt(value, 10)                                                     *)
(***************************************************************************)
DigitChars == <<"0", "1", "2", "3", "4", "5", "6", "7", "8", "9">>
IsDigit(c) == \E d \in 1..10 : DigitChars[d] = c
DigitVal(c) == (CHOOSE d \in 1..10 : DigitChars[d] = c) - 1
WhiteSpace == {" ", "\t", "\n"}

RECURSIVE SkipWhiteSpace(_, _)
SkipWhiteSpace(s, p) ==
  IF p <= Len(s) /\ SubSeq(s, p, p) \in WhiteSpace
    THEN SkipWhiteSpace(s, p + 1)
    ELSE p

\* the digits of s from position p on: <<number of digits read, their value>>
RECURSIVE ParseDigits(_, _, _, _)
ParseDigits(s, p, n, acc) ==
  IF p <= Len(s) /\ IsDigit(SubSeq(s, p, p))
    THEN ParseDigits(s, p + 1, n + 1, 10 * acc + DigitVal(SubSeq(s, p, p)))
    ELSE <<n, acc>>

parseIntString(s) ==
  LET p0 == SkipWhiteSpace(s, 1)
      signed == p0 <= Len(s) /\ SubSeq(s, p0, p0) \in {"+", "-"}
      neg == signed /\ SubSeq(s, p0, p0) = "-"
      p1 == IF signed THEN p0 + 1 ELSE p0
      d == ParseDigits(s, p1, 0, 0)
  IN  IF d[1] = 0 THEN NaN
      ELSE Num(IF neg THEN 0 - d[2] ELSE d[2])

parseInt(v) == parseIntString(ToStringJS(v))

\* getValue of the three recodes: parseInt(row[key] || 0, 10)
getValue(row, key) ==
  LET raw == Get(row, key).v
  IN  parseInt(IF Truthy(raw) THEN raw ELSE Num(0))

\* ToString(v) throws a TypeError: an object whose own toString is not
\* callable, and whose inherited valueOf answers with the object itself
NoPrimitiveValue(v) ==
  IF v.t = "object"
    THEN IF "toString" \in DOMAIN v.f THEN v.f["toString"].t # "function" ELSE FALSE
    ELSE FALSE

\* getValue throws: an object is truthy, and parseInt converts it to a string
getValueThrows(row, key) == NoPrimitiveValue(Get(row, key).v)

\* a + b on the numbers parseInt returns: an integer or NaN
Plus(a, b) ==
  IF a.t = "number" /\ b.t = "number" THEN Num(a.n + b.n) ELSE NaN

RECURSIVE SumOf(_)
SumOf(vals) ==
  IF vals = <<>> THEN Num(0)
  ELSE Plus(SumOf(SubSeq(vals, 1, Len(vals) - 1)), vals[Len(vals)])

(***************************************************************************)
(* Recode specification and the three recodes                              *)
(***************************************************************************)
\* RECODE_SPECS: the levels of each dimension
AgeLevels == <<"18-24", "25-34", "35-44", "45-54", "55-64", "65+">>
SexLevels == <<"Female", "Male">>
RaceLevels == <<"White", "Black", "Hispanic", "Asian", "Other">>
EducationLevels ==
  <<"Less Than HS", "High School", "Some College", "BA/BS", "Post-Grad">>
RegionLevels == <<"Northeast", "Midwest", "South", "West", "DC">>

\* RECODE_SPECS.censusRegion.mapping, in the order of the literal
RegionMapping ==
  << <<"Northeast", {"CT", "ME", "MA", "NH", "RI", "VT", "NJ", "NY", "PA"}>>,
     <<"Midwest", {"IL", "IN", "MI", "OH", "WI", "IA", "KS", "MN", "MO",
                   "NE", "ND", "SD"}>>,
     <<"South", {"DE", "FL", "GA", "MD", "NC", "SC", "VA", "WV", "AL", "KY",
                 "MS", "TN", "AR", "LA", "OK", "TX"}>>,
     <<"West", {"AZ", "CO", "ID", "MT", "NV", "NM", "UT", "WY", "AK", "CA",
                "HI", "OR", "WA"}>>,
     <<"DC", {"DC"}>> >>

\* the property names of the objects recodeAge, recodeRace and
\* recodeEducation return, in the order of their literals, and the sexes
\* buildPoststratTable loops over
AgeLabels == <<"18-24", "25-34", "35-44", "45-54", "55-64", "65+">>
RaceLabelsLatino == <<"White", "Black", "Latino", "Asian", "Other">>
RaceLabels == <<"White", "Black", "Hispanic", "Asian", "Other">>
EducationLabels ==
  <<"Less Than HS", "High School", "Some College", "BA/BS", "Post-Grad">>
Sexes == <<"Female", "Male">>

\* String(n).padStart(3, '0')
padStart3(n) ==
  LET s == ToString(n)
  IN  IF Len(s) >= 3 THEN s
      ELSE IF Len(s) = 2 THEN "0" \o s
      ELSE "00" \o s

AgeKey(n) == "B01001_" \o padStart3(n) \o "E"
RaceKey(n) == "B03002_" \o padStart3(n) \o "E"
EduKey(n) == "B15003_" \o padStart3(n) \o "E"

\* the age table without the bucket of the oldest (85 and over)
AgeBucketsWithoutOldest ==
  << <<7, 8, 9, 10>>, <<11, 12>>, <<13, 14>>, <<15, 16>>, <<17, 18, 19>>,
     <<20, 21, 22, 23, 24>> >>

\* the B01001 bucket numbers (before the sex offset) summed into each label
AgeBuckets ==
  << <<7, 8, 9, 10>>, <<11, 12>>, <<13, 14>>, <<15, 16>>, <<17, 18, 19>>,
     <<20, 21, 22, 23, 24, 25>> >>

\* the race table with a part of "two or more races" counted again
RaceBucketsDoubleCounted == << <<3>>, <<4>>, <<12>>, <<6>>, <<5, 7, 8, 9, 10>> >>

\* the B03002 fields summed into each label
RaceBuckets == << <<3>>, <<4>>, <<12>>, <<6>>, <<5, 7, 8, 9>> >>

\* the education table with "12th grade, no diploma" under High School
EduBucketsDiplomaless ==
  << <<2, 3, 4, 5, 6, 7, 8, 9, 10, 11, 12, 13, 14, 15>>, <<16, 17, 18>>,
     <<19, 20, 21>>, <<22>>, <<23, 24, 25>> >>

\* the B15003 buckets summed into each label
EduBuckets ==
  << <<2, 3, 4, 5, 6, 7, 8, 9, 10, 11, 12, 13, 14, 15, 16>>, <<17, 18>>,
     <<19, 20, 21>>, <<22>>, <<23, 24, 25>> >>

\* the age recode reading the men's buckets for either sex
recodeAgeIgnoringSex(row, sex) ==
  [l \in 1..Len(AgeLabels) |->
    <<AgeLabels[l],
      SumOf([b \in 1..Len(AgeBuckets[l]) |->
               getValue(row, AgeKey(AgeBuckets[l][b]))])>>]

\* the entries of the object a recode returns: <<label, count>> in the
\* order of the literal
recodeAge(row, sex) ==
  LET offset == IF sex = "Male" THEN 0 ELSE 24
  IN  [l \in 1..Len(AgeLabels) |->
        <<AgeLabels[l],
          SumOf([b \in 1..Len(AgeBuckets[l]) |->
                   getValue(row, AgeKey(AgeBuckets[l][b] + offset))])>>]

recodeRace(row) ==
  [l \in 1..Len(RaceLabels) |->
    <<RaceLabels[l],
      SumOf([b \in 1..Len(RaceBuckets[l]) |->
               getValue(row, RaceKey(RaceBuckets[l][b]))])>>]

recodeEducation(row) ==
  [l \in 1..Len(EducationLabels) |->
    <<EducationLabels[l],
      SumOf([b \in 1..Len(EduBuckets[l]) |->
               getValue(row, EduKey(EduBuckets[l][b]))])>>]

\* a getValue call of a recode throws
recodeAgeThrows(row, sex) ==
  LET offset == IF sex = "Male" THEN 0 ELSE 24
  IN  \E l \in 1..Len(AgeBuckets) : \E b \in 1..Len(AgeBuckets[l]) :
        getValueThrows(row, AgeKey(AgeBuckets[l][b] + offset))

recodeRaceThrows(row) ==
  \E l \in 1..Len(RaceBuckets) : \E b \in 1..Len(RaceBuckets[l]) :
    getValueThrows(row, RaceKey(RaceBuckets[l][b]))

recodeEducationThrows(row) ==
  \E l \in 1..Len(EduBuckets) : \E b \in 1..Len(EduBuckets[l]) :
    getValueThrows(row, EduKey(EduBuckets[l][b]))

(***************************************************************************)
(* Geography: FIPS table, fipsToState, parseDistrict, getRegion            *)
(***************************************************************************)
FIPS_TO_STATE ==
  << <<"01", "AL">>, <<"02", "AK">>, <<"04", "AZ">>, <<"05", "AR">>,
     <<"06", "CA">>, <<"08", "CO">>, <<"09", "CT">>, <<"10", "DE">>,
     <<"11", "DC">>, <<"12", "FL">>, <<"13", "GA">>, <<"15", "HI">>,
     <<"16", "ID">>, <<"17", "IL">>, <<"18", "IN">>, <<"19", "IA">>,
     <<"20", "KS">>, <<"21", "KY">>, <<"22", "LA">>, <<"23", "ME">>,
     <<"24", "MD">>, <<"25", "MA">>, <<"26", "MI">>, <<"27", "MN">>,
     <<"28", "MS">>, <<"29", "MO">>, <<"30", "MT">>, <<"31", "NE">>,
     <<"32", "NV">>, <<"33", "NH">>, <<"34", "NJ">>, <<"35", "NM">>,
     <<"36", "NY">>, <<"37", "NC">>, <<"38", "ND">>, <<"39", "OH">>,
     <<"40", "OK">>, <<"41", "OR">>, <<"42", "PA">>, <<"44", "RI">>,
     <<"45", "SC">>, <<"46", "SD">>, <<"47", "TN">>, <<"48", "TX">>,
     <<"49", "UT">>, <<"50", "VT">>, <<"51", "VA">>, <<"53", "WA">>,
     <<"54", "WV">>, <<"55", "WI">>, <<"56", "WY">>, <<"72", "PR">> >>

FipsCodes == {FIPS_TO_STATE[k][1] : k \in 1..Len(FIPS_TO_STATE)}
FipsStates == {FIPS_TO_STATE[k][2] : k \in 1..Len(FIPS_TO_STATE)}

\* FIPS_TO_STATE[fips]: an own entry, else a member inherited from
\* Object.prototype, else undefined
FipsLookup(fips) ==
  LET key == ToStringJS(fips)
  IN  IF key \in FipsCodes
        THEN Str(FIPS_TO_STATE[CHOOSE k \in 1..Len(FIPS_TO_STATE) :
                                 FIPS_TO_STATE[k][1] = key][2])
      ELSE IF key \in ProtoFunctions
        THEN Fn(IF key = "constructor" THEN "Object" ELSE key)
      ELSE Undefined

fipsToState(fips) ==
  LET state == FipsLookup(fips)
  IN  IF ~Truthy(state)
        THEN Throw("Unknown FIPS code: " \o ToStringJS(fips))
        ELSE Return(state)

\* parseDistrict labelling a district with its state alone
parseDistrictStateOnly(row) ==
  LET stateFips == Get(row, "state")
      cdNumber == Get(row, "congressional district")
      state == fipsToState(stateFips.v)
      cdFormatted == IF cdNumber.v = Str("00") THEN Str("00") ELSE cdNumber.v
  IN  IF ~stateFips.ok THEN stateFips
      ELSE IF ~state.ok THEN state
      ELSE Return([state |-> state.v,
                   cd |-> Str(ToStringJS(state.v)),
                   cdNumber |-> cdFormatted])

parseDistrict(row) ==
  LET stateFips == Get(row, "state")
      cdNumber == Get(row, "congressional district")
      state == fipsToState(stateFips.v)
      cdFormatted == IF cdNumber.v = Str("00") THEN Str("00") ELSE cdNumber.v
  IN  IF ~stateFips.ok THEN stateFips
      ELSE IF ~state.ok THEN state
      ELSE Return([state |-> state.v,
                   cd |-> Str(ToStringJS(state.v) \o "-" \o ToStringJS(cdFormatted)),
                   cdNumber |-> cdFormatted])

\* states.includes(stateCode), region by region in the order of the mapping
RECURSIVE getRegionFrom(_, _)
getRegionFrom(stateCode, k) ==
  IF k > Len(RegionMapping)
    THEN Throw("Unknown state code: " \o ToStringJS(stateCode))
  ELSE IF stateCode.t = "string" /\ stateCode.s \in RegionMapping[k][2]
    THEN Return(RegionMapping[k][1])
  ELSE getRegionFrom(stateCode, k + 1)

getRegion(stateCode) == getRegionFrom(stateCode, 1)

(***************************************************************************)
(* IEEE-754 doubles of the proportional allocation.  A finite non-zero     *)
(* double is sign, significand M in [2^52, 2^53) and exponent e, of value  *)
(* M * 2^e; M is held as four limbs of 14 bits, lowest first.  Operands    *)
(* of a division are the integer counts, below 2^16 in absolute value.     *)
(***************************************************************************)
Limb == 16384
Pow2(n) == 2 ^ n

FZero == [k |-> "zero"]
FNaN == [k |-> "nan"]
FInf(neg) == [k |-> "inf", neg |-> neg]
Fin(neg, m, e) == [k |-> "fin", neg |-> neg, m |-> m, e |-> e]

Abs(n) == IF n < 0 THEN 0 - n ELSE n

\* the significand plus one unit in the last place: <<significand, exponent>>
IncSignificand(m, e) ==
  IF m = <<Limb - 1, Limb - 1, Limb - 1, 2047>> THEN << <<0, 0, 0, 1024>>, e + 1 >>
  ELSE IF m[1] < Limb - 1 THEN << <<m[1] + 1, m[2], m[3], m[4]>>, e >>
  ELSE IF m[2] < Limb - 1 THEN << <<0, m[2] + 1, m[3], m[4]>>, e >>
  ELSE IF m[3] < Limb - 1 THEN << <<0, 0, m[3] + 1, m[4]>>, e >>
  ELSE << <<0, 0, 0, m[4] + 1>>, e >>

\* round to nearest, ties to even
RoundNearestEven(neg, m, e, halfBit, sticky) ==
  IF halfBit = 1 /\ (sticky \/ m[1] % 2 = 1)
    THEN LET r == IncSignificand(m, e) IN Fin(neg, r[1], r[2])
    ELSE Fin(neg, m, e)

\* floor(log2(a / b)) for positive integers a, b
RECURSIVE ExpUp(_, _, _)
ExpUp(a, b, j) == IF b * Pow2(j + 1) <= a THEN ExpUp(a, b, j + 1) ELSE j
RECURSIVE ExpDown(_, _, _)
ExpDown(a, b, i) == IF a * Pow2(i) >= b THEN i ELSE ExpDown(a, b, i + 1)
FloorLog2Ratio(a, b) == IF a >= b THEN ExpUp(a, b, 0) ELSE 0 - ExpDown(a, b, 1)

\* long division of the limbs nl (index 0..6, lowest first) by b, from the
\* top limb down: <<quotient limbs, remainder>>
RECURSIVE LongDiv(_, _, _, _, _)
LongDiv(nl, b, i, r, q) ==
  IF i < 0 THEN <<q, r>>
  ELSE LET cur == r * Limb + nl[i]
       IN  LongDiv(nl, b, i - 1, cur % b, [q EXCEPT ![i] = cur \div b])

\* the double nearest to a / b, for positive integers a, b
DivPositive(neg, a, b) ==
  LET j == FloorLog2Ratio(a, b)
      k == 52 - j
      u == k \div 14
      w == a * Pow2(k % 14)
      nl == [i \in 0..6 |->
               IF i = u THEN w % Limb
               ELSE IF i = u + 1 THEN (w \div Limb) % Limb
               ELSE IF i = u + 2 THEN w \div (Limb * Limb)
               ELSE 0]
      d == LongDiv(nl, b, 6, 0, [i \in 0..6 |-> 0])
      q == d[1]
      r == d[2]
  IN  RoundNearestEven(neg, <<q[0], q[1], q[2], q[3]>>, 0 - k,
                       IF 2 * r >= b THEN 1 ELSE 0, 2 * r > b)

\* a / b on two counts (integers or NaN)
Divide(a, b) ==
  IF a.t # "number" \/ b.t # "number" THEN FNaN
  ELSE IF b.n = 0
    THEN (IF a.n = 0 THEN FNaN ELSE FInf(a.n < 0))
  ELSE IF a.n = 0 THEN FZero
  ELSE DivPositive((a.n < 0) # (b.n < 0), Abs(a.n), Abs(b.n))

\* a count as a double
ToDouble(a) == Divide(a, Num(1))

\* the exact product of two significands as eight limbs, index 0..7
MulLimbs(a, b) ==
  LET c0 == a[1] * b[1]
      c1 == a[1] * b[2] + a[2] * b[1] + (c0 \div Limb)
      c2 == a[1] * b[3] + a[2] * b[2] + a[3] * b[1] + (c1 \div Limb)
      c3 == a[1] * b[4] + a[2] * b[3] + a[3] * b[2] + a[4] * b[1] + (c2 \div Limb)
      c4 == a[2] * b[4] + a[3] * b[3] + a[4] * b[2] + (c3 \div Limb)
      c5 == a[3] * b[4] + a[4] * b[3] + (c4 \div Limb)
      c6 == a[4] * b[4] + (c5 \div Limb)
  IN  [i \in 0..8 |->
        CASE i = 0 -> c0 % Limb
          [] i = 1 -> c1 % Limb
          [] i = 2 -> c2 % Limb
          [] i = 3 -> c3 % Limb
          [] i = 4 -> c4 % Limb
          [] i = 5 -> c5 % Limb
          [] i = 6 -> c6 % Limb
          [] i = 7 -> c6 \div Limb
          [] OTHER -> 0]

\* x * y on doubles
Times(x, y) ==
  IF x.k = "nan" \/ y.k = "nan" THEN FNaN
  ELSE IF x.k = "inf" \/ y.k = "inf"
    THEN (IF x.k = "zero" \/ y.k = "zero" THEN FNaN
          ELSE FInf(x.neg # y.neg))
  ELSE IF x.k = "zero" \/ y.k = "zero" THEN FZero
  ELSE LET p == MulLimbs(x.m, y.m)
           t == IF p[7] >= 128 THEN 11 ELSE 10
           q == [j \in 0..3 |->
                  (p[j + 3] \div Pow2(t)) + (p[j + 4] % Pow2(t)) * Pow2(14 - t)]
       IN  RoundNearestEven(x.neg # y.neg, <<q[0], q[1], q[2], q[3]>>,
                            x.e + y.e + 42 + t,
                            (p[3] \div Pow2(t - 1)) % 2,
                            p[3] % Pow2(t - 1) # 0
                              \/ p[0] # 0 \/ p[1] # 0 \/ p[2] # 0)

\* Math.round: the nearest integer, a tie going to the integer closer to
\* +Infinity; the values rounded are below 2^30 in absolute value
MathRound(x) ==
  IF x.k = "nan" THEN NaN
  ELSE IF x.k = "inf" THEN (IF x.neg THEN NegInfinity ELSE PosInfinity)
  ELSE IF x.k = "zero" THEN Num(0)
  ELSE LET s == 0 - x.e
           u == s \div 14
           v == s % 14
           m == [i \in 0..3 |-> x.m[i + 1]]
           whole == IF u > 3 THEN 0
                    ELSE (m[u] \div Pow2(v))
                         + (IF u + 1 <= 3 THEN m[u + 1] * Pow2(14 - v) ELSE 0)
                         + (IF u + 2 <= 3 THEN m[u + 2] * Pow2(28 - v) ELSE 0)
           hu == (s - 1) \div 14
           hv == (s - 1) % 14
           halfBit == IF hu > 3 THEN 0 ELSE (m[hu] \div Pow2(hv)) % 2
           sticky == IF hu > 3 THEN TRUE
                     ELSE m[hu] % Pow2(hv) # 0
                          \/ \E i \in 0..3 : i < hu /\ m[i] # 0
       IN  IF x.neg
             THEN Num(0 - (whole + (IF halfBit = 1 /\ sticky THEN 1 ELSE 0)))
             ELSE Num(whole + halfBit)

\* population >= 0
GreaterOrEqualZero(v) == v.t = "Infinity" \/ (v.t = "number" /\ v.n >= 0)

\* population > 0
GreaterThanZero(v) == v.t = "Infinity" \/ (v.t = "number" /\ v.n > 0)

(***************************************************************************)
(* buildPoststratTable                                                     *)
(***************************************************************************)
batchSize == 5000

\* Object.values(counts).reduce((a, b) => a + b, 0)
Total(counts) == SumOf([l \in 1..Len(counts) |-> counts[l][2]])

\* the allocation without the population base
CellPopulationNoBase(totalAge, ageProp, raceProp, eduProp) ==
  MathRound(Times(Times(ageProp, raceProp), eduProp))

\* Math.round(totalAge * ageProp * raceProp * eduProp)
CellPopulation(totalAge, ageProp, raceProp, eduProp) ==
  MathRound(Times(Times(Times(totalAge, ageProp), raceProp), eduProp))

\* the guard testing the age total alone
NoPopulationDataAgeOnly(totalAge, totalRace, totalEdu) ==
  totalAge = Num(0)

\* if (totalAge === 0 || totalRace === 0 || totalEdu === 0) continue
NoPopulationData(totalAge, totalRace, totalEdu) ==
  totalAge = Num(0) \/ totalRace = Num(0) \/ totalEdu = Num(0)

\* the object pushed onto cells
MakeCell(yr, state, cd, ageGroup, sex, raceEth, education, censusRegion, population) ==
  [year |-> yr, state |-> state, cd |-> cd, ageGroup |-> ageGroup, sex |-> sex,
   raceEth |-> raceEth, education |-> education, censusRegion |-> censusRegion,
   population |-> population]

\* the cells one sex of one geography pushes: the three nested loops over
\* the entries of the age, race and education counts, education innermost.
\* The totals and the proportions do not change from one combination to
\* the next and are computed once.
SliceCells(yr, state, cd, censusRegion, sex, ageCounts, raceCounts, educationCounts) ==
  LET nr == Len(raceCounts)
      ne == Len(educationCounts)
      totalAge == Total(ageCounts)
      totalRace == Total(raceCounts)
      totalEdu == Total(educationCounts)
      base == ToDouble(totalAge)
      ageProp == [l \in 1..Len(ageCounts) |-> Divide(ageCounts[l][2], totalAge)]
      raceProp == [l \in 1..nr |-> Divide(raceCounts[l][2], totalRace)]
      eduProp == [l \in 1..ne |-> Divide(educationCounts[l][2], totalEdu)]
      a(n) == ((n - 1) \div (nr * ne)) + 1
      r(n) == (((n - 1) \div ne) % nr) + 1
      e(n) == ((n - 1) % ne) + 1
      candidates ==
        [n \in 1..(Len(ageCounts) * nr * ne) |->
          MakeCell(yr, state, cd, ageCounts[a(n)][1], sex, raceCounts[r(n)][1],
                   educationCounts[e(n)][1], censusRegion,
                   CellPopulation(base, ageProp[a(n)], raceProp[r(n)], eduProp[e(n)]))]
      pushed(c) == GreaterThanZero(c.population)
  IN  IF NoPopulationData(totalAge, totalRace, totalEdu) THEN <<>>
      ELSE SelectSeq(candidates, pushed)

\* the cells of every sex in sexes, in order
RECURSIVE SexCells(_, _, _, _, _, _)
SexCells(yr, row, d, censusRegion, sexes, k) ==
  IF k > Len(sexes) THEN <<>>
  ELSE SliceCells(yr, d.state, d.cd, censusRegion, sexes[k],
                  recodeAge(row, sexes[k]), recodeRace(row), recodeEducation(row))
       \o SexCells(yr, row, d, censusRegion, sexes, k + 1)

\* the first two statements of the try block: parseDistrict(row), then
\* getRegion(state)
ResolveGeography(row) ==
  LET d == parseDistrict(row)
      censusRegion == getRegion(d.v.state)
  IN  IF ~d.ok THEN d
      ELSE IF ~censusRegion.ok THEN censusRegion
      ELSE Return([state |-> d.v.state, cd |-> d.v.cd, censusRegion |-> censusRegion.v])

\* the body of the try block for one row: the cells it pushes, or the error
\* it throws
ProcessRow(yr, row) ==
  LET g == ResolveGeography(row)
  IN  IF ~g.ok THEN g
      ELSE Return(SexCells(yr, row, g.v, g.v.censusRegion, Sexes, 1))

\* the sexes whose recodeAge call throws
ThrowingSexes(row) == {k \in 1..Len(Sexes) : recodeAgeThrows(row, Sexes[k])}

\* how the try block ends for one row: with the error of the geography, with
\* the TypeError of a recode, or normally
TryError(row) ==
  LET g == ResolveGeography(row)
  IN  IF ~g.ok THEN g
      ELSE IF recodeRaceThrows(row) THEN Throw("Cannot convert object to primitive value")
      ELSE IF recodeEducationThrows(row) THEN Throw("Cannot convert object to primitive value")
      ELSE IF ThrowingSexes(row) # {} THEN Throw("Cannot convert object to primitive value")
      ELSE Return(g.v)

\* the cells a try block that throws has pushed before: those of the sexes
\* that come before the sex whose recodeAge call throws
PushedBeforeThrow(yr, row) ==
  LET g == ResolveGeography(row)
      first == CHOOSE k \in ThrowingSexes(row) : \A j \in ThrowingSexes(row) : k <= j
  IN  IF ~g.ok THEN <<>>
      ELSE IF recodeRaceThrows(row) THEN <<>>
      ELSE IF recodeEducationThrows(row) THEN <<>>
      ELSE IF ThrowingSexes(row) = {} THEN <<>>
      ELSE SexCells(yr, row, g.v, g.v.censusRegion, SubSeq(Sexes, 1, first - 1), 1)

\* the first argument of console.error in the catch block; reading row.NAME
\* throws again when the row is null or undefined
CatchMessage(row) ==
  LET name == Get(row, "NAME")
  IN  IF ~name.ok THEN name
      ELSE Return("Error processing district " \o ToStringJS(name.v) \o ":")

\* the identity key of a cell: the unique constraint of the table store
KeyOf(c) ==
  <<c.year, c.state, c.cd, c.ageGroup, c.sex, c.raceEth, c.education, c.censusRegion>>

\* a bulk insert that replaces a stored row of the same key (an upsert)
createManyOverwriting(store, batch) ==
  {c \in store : \A k \in 1..Len(batch) : KeyOf(batch[k]) # KeyOf(c)}
    \cup {batch[k] : k \in {n \in 1..Len(batch) :
                              \A j \in (n + 1)..Len(batch) : KeyOf(batch[j]) # KeyOf(batch[n])}}

\* a bulk insert that stores every row of the batch
createManyKeepingAll(store, batch) ==
  store \cup {batch[k] : k \in 1..Len(batch)}

\* createMany({ data: batch, skipDuplicates: true }): a row whose key is
\* already stored, or is carried by an earlier row of the batch, is left
\* out (INSERT ... ON CONFLICT DO NOTHING under the unique constraint)
createMany(store, batch) ==
  LET stored == {KeyOf(c) : c \in store}
      keys == [k \in 1..Len(batch) |-> KeyOf(batch[k])]
      distinct == Cardinality({keys[k] : k \in 1..Len(batch)}) = Len(batch)
      first(k) == distinct \/ \A j \in 1..(k - 1) : keys[j] # keys[k]
  IN  store \cup {batch[k] : k \in {n \in 1..Len(batch) :
                                       keys[n] \notin stored /\ first(n)}}

\* a stored count that adds what createMany inserted
CountedAsInserted(store, batch) == Cardinality(createMany(store, batch) \ store)

\* storedCount += batch.length
Counted(store, batch) == Len(batch)

\* a slice that leaves out the last cell of a full batch
SliceShort(cs, from) ==
  SubSeq(cs, from + 1,
         IF from + batchSize < Len(cs) THEN from + batchSize - 1 ELSE Len(cs))

\* cells.slice(from, from + batchSize), from counted from 0
Slice(cs, from) ==
  SubSeq(cs, from + 1, IF from + batchSize < Len(cs) THEN from + batchSize ELSE Len(cs))

\* BuildResult reporting every input row as processed
BuildResultCountsAllRows(yr, nRows, skipped, nCells, stored) ==
  [success |-> TRUE, year |-> yr,
   districtsProcessed |-> nRows,
   districtsSkipped |-> skipped,
   cellsGenerated |-> nCells,
   cellsStored |-> stored,
   dimensions |-> [ageGroups |-> Len(AgeLevels), sexes |-> Len(SexLevels),
                   raceEth |-> Len(RaceLevels), education |-> Len(EducationLevels),
                   censusRegions |-> Len(RegionLevels)]]

BuildResult(yr, nRows, skipped, nCells, stored) ==
  [success |-> TRUE, year |-> yr,
   districtsProcessed |-> nRows - skipped,
   districtsSkipped |-> skipped,
   cellsGenerated |-> nCells,
   cellsStored |-> stored,
   dimensions |-> [ageGroups |-> Len(AgeLevels), sexes |-> Len(SexLevels),
                   raceEth |-> Len(RaceLevels), education |-> Len(EducationLevels),
                   censusRegions |-> Len(RegionLevels)]]

(***************************************************************************)
(* Raw geography records of the model                                      *)
(***************************************************************************)
\* the synthetic district of the end-to-end example
RowTX32 ==
  Obj(("NAME" :> Str("Congressional District 32, Texas")) @@ ("state" :> Str("48"))
      @@ ("congressional district" :> Str("32"))
      @@ ("B01001_007E" :> Str("1000")) @@ ("B03002_003E" :> Str("2000"))
      @@ ("B15003_022E" :> Str("1500")))

\* women only, with a product that lies halfway between two integers
RowCA12 ==
  Obj(("NAME" :> Str("Congressional District 12, California")) @@ ("state" :> Str("06"))
      @@ ("congressional district" :> Str("12"))
      @@ ("B01001_031E" :> Str("7")) @@ ("B01001_007E" :> Str("0"))
      @@ ("B03002_003E" :> Str("2")) @@ ("B03002_004E" :> Num(1))
      @@ ("B03002_012E" :> Null)
      @@ ("B15003_022E" :> Str("3")) @@ ("B15003_017E" :> Str("1")))

\* an at-large district
RowAK00 ==
  Obj(("NAME" :> Str("Congressional District (at Large), Alaska")) @@ ("state" :> Str("02"))
      @@ ("congressional district" :> Str("00"))
      @@ ("B01001_010E" :> Str("3")) @@ ("B01001_034E" :> Str(" 4"))
      @@ ("B03002_006E" :> Str("1")) @@ ("B15003_025E" :> Str("2")))

\* the example district as a revised release of the estimates reports it
RowTX32Revised ==
  Obj(("NAME" :> Str("Congressional District 32, Texas")) @@ ("state" :> Str("48"))
      @@ ("congressional district" :> Str("32"))
      @@ ("B01001_007E" :> Str("900")) @@ ("B03002_003E" :> Str("2000"))
      @@ ("B15003_022E" :> Str("1500")))

\* a district code that is not two digits
RowTXZZ ==
  Obj(("NAME" :> Str("Congressional Districts not defined, Texas")) @@ ("state" :> Str("48"))
      @@ ("congressional district" :> Str("ZZ"))
      @@ ("B01001_007E" :> Str("2")) @@ ("B03002_003E" :> Str("1"))
      @@ ("B15003_022E" :> Str("1")))

\* count fields that are null, empty, non-numeric or only start with digits
RowNY10 ==
  Obj(("NAME" :> Str("Congressional District 10, New York")) @@ ("state" :> Str("36"))
      @@ ("congressional district" :> Str("10"))
      @@ ("B01001_007E" :> Str("12abc")) @@ ("B01001_031E" :> Str(""))
      @@ ("B03002_003E" :> Str("N/A")) @@ ("B03002_004E" :> Null)
      @@ ("B03002_006E" :> Str("4"))
      @@ ("B15003_022E" :> Str("5")))

\* a negative count in one age label
RowOH03 ==
  Obj(("NAME" :> Str("Congressional District 3, Ohio")) @@ ("state" :> Str("39"))
      @@ ("congressional district" :> Str("03"))
      @@ ("B01001_031E" :> Str("-1")) @@ ("B01001_035E" :> Str("2"))
      @@ ("B03002_003E" :> Str("1")) @@ ("B03002_004E" :> Str("1"))
      @@ ("B15003_022E" :> Str("1")))

\* race counts that cancel to a zero total
RowWI01 ==
  Obj(("NAME" :> Str("Congressional District 1, Wisconsin")) @@ ("state" :> Str("55"))
      @@ ("congressional district" :> Str("01"))
      @@ ("B01001_007E" :> Num(5))
      @@ ("B03002_003E" :> Str("5")) @@ ("B03002_004E" :> Str("-5"))
      @@ ("B15003_022E" :> Str("1")))

\* a state code the FIPS table does not hold
RowFips99 ==
  Obj(("NAME" :> Str("Congressional District 1, Nowhere")) @@ ("state" :> Str("99"))
      @@ ("congressional district" :> Str("01"))
      @@ ("B01001_007E" :> Str("10")) @@ ("B03002_003E" :> Str("10"))
      @@ ("B15003_022E" :> Str("10")))

\* a territory the FIPS table holds
RowPR98 ==
  Obj(("NAME" :> Str("Resident Commissioner District (at Large), Puerto Rico"))
      @@ ("state" :> Str("72")) @@ ("congressional district" :> Str("98"))
      @@ ("B01001_007E" :> Str("10")) @@ ("B03002_012E" :> Str("10"))
      @@ ("B15003_022E" :> Str("10")))

\* a state code that names a member of Object.prototype
RowProto ==
  Obj(("NAME" :> Str("constructor")) @@ ("state" :> Str("constructor"))
      @@ ("congressional district" :> Str("01")))

\* an object without identifier fields
RowEmpty == Obj(<<>>)

\* a count field that holds an object with no primitive value, as
\* JSON.parse gives for {"toString": 1}
NoPrimitive == Obj("toString" :> Num(1))

\* the count of the men of 18 and 19 is such an object
RowGA05 ==
  Obj(("NAME" :> Str("Congressional District 5, Georgia")) @@ ("state" :> Str("13"))
      @@ ("congressional district" :> Str("05"))
      @@ ("B01001_031E" :> Str("400")) @@ ("B01001_007E" :> NoPrimitive)
      @@ ("B03002_003E" :> Str("300")) @@ ("B03002_004E" :> Str("100"))
      @@ ("B15003_022E" :> Str("200")))

\* the count of one race field is such an object
RowGA06 ==
  Obj(("NAME" :> Str("Congressional District 6, Georgia")) @@ ("state" :> Str("13"))
      @@ ("congressional district" :> Str("06"))
      @@ ("B01001_031E" :> Str("400")) @@ ("B01001_007E" :> Str("300"))
      @@ ("B03002_003E" :> Str("300")) @@ ("B03002_004E" :> NoPrimitive)
      @@ ("B15003_022E" :> Str("200")))

\* the variables fetchACS1Year asks for, in the order of CENSUS_VARIABLES
CENSUS_VARIABLES ==
  <<AgeKey(1)>> \o [b \in 1..19 |-> AgeKey(b + 6)] \o [b \in 1..19 |-> AgeKey(b + 30)]
    \o <<RaceKey(1), RaceKey(3), RaceKey(4), RaceKey(6), RaceKey(12), RaceKey(5),
         RaceKey(7), RaceKey(8), RaceKey(9)>>
    \o [b \in 1..25 |-> EduKey(b)]

\* a count for every variable asked for, as the strings the API answers
\* with: 1000 + n for B01001_n, 2000 + n for B03002_n, 3000 + n for
\* B15003_n
DenseCounts ==
  [key \in {CENSUS_VARIABLES[v] : v \in 1..Len(CENSUS_VARIABLES)} |->
     LET n == CHOOSE b \in 1..49 : key \in {AgeKey(b), RaceKey(b), EduKey(b)}
     IN  Str(ToString((IF key = AgeKey(n) THEN 1000
                       ELSE IF key = RaceKey(n) THEN 2000 ELSE 3000) + n))]

DistrictCode(n) == IF n < 10 THEN "0" \o ToString(n) ELSE ToString(n)

\* district n of Texas with every count present: 300 cells
DenseRow(n) ==
  Obj(("NAME" :> Str("Congressional District " \o ToString(n) \o ", Texas"))
      @@ ("state" :> Str("48")) @@ ("congressional district" :> Str(DistrictCode(n)))
      @@ DenseCounts)

\* district 1 of Texas once more, with another count of men aged 18-19
DenseRowRevised ==
  Obj(("B01001_007E" :> Str("5000")) @@ DenseRow(1).f)

\* a district whose women are all aged 18 to 34: 150 + 50 cells
RowFL27 ==
  Obj(("NAME" :> Str("Congressional District 27, Florida"))
      @@ ("state" :> Str("12")) @@ ("congressional district" :> Str("27"))
      @@ [key \in {AgeKey(b) : b \in (32..34) \cup (36..49)} |-> Str("0")]
      @@ DenseCounts)

RowKinds ==
  {RowTX32, RowCA12, RowAK00, RowTXZZ, RowNY10, RowOH03, RowWI01,
   RowFips99, RowPR98, RowProto, RowEmpty, Str("garbage"), Null}

Years == {2022}

SeqsUpTo(S, n) == UNION {[1..k -> S] : k \in 0..n}

(***************************************************************************)
(* State                                                                   *)
(***************************************************************************)
VARIABLES
  year,              \* argument of buildPoststratTable
  censusData,        \* argument of buildPoststratTable
  pc,                \* "idle", "rows", "store", "done" or "thrown"
  rowIdx,            \* number of rows the for-of loop has finished
  cells,
  skippedDistricts,
  errors,            \* what console.error was called with
  i,                 \* offset of the next batch
  storedCount,
  db,                \* rows of the poststratCell table
  result,            \* the value the promise resolves with
  thrown,            \* the error the promise rejects with
  writes,            \* the data of every createMany call of the build, in call order
  inserted,          \* sum of the counts createMany answered with
  adminSecret,       \* process.env.ADMIN_SECRET
  request,           \* the request received last
  response,          \* the response sent last
  fetches,           \* number of calls of fetchACS1Year
  fetched,           \* how the last call of fetchACS1Year completed
  handled,           \* number of requests received
  census             \* CENSUS_API_KEY and what the Census API answers each request with

\* what the route handlers of server.js add to the state
serverVars == <<adminSecret, request, response, fetches, fetched, handled, census>>

vars ==
  <<year, censusData, pc, rowIdx, cells, skippedDistricts, errors, i,
    storedCount, db, result, thrown, writes, inserted, serverVars>>

NoResult == [success |-> FALSE]
NoError == ""
NoRequest == [method |-> "none"]
NoResponse == [status |-> 0]
NoFetch == [ok |-> FALSE, err |-> ""]
NoCensus == [apiKey |-> Undefined, responses |-> <<>>]

\* the locals of buildPoststratTable on entry
BuildEntry ==
  /\ pc = "rows"
  /\ rowIdx = 0
  /\ cells = <<>>
  /\ skippedDistricts = 0
  /\ errors = <<>>
  /\ i = 0
  /\ storedCount = 0
  /\ result = NoResult
  /\ thrown = NoError
  /\ writes = <<>>
  /\ inserted = 0

\* no request has been received
NoServer ==
  /\ adminSecret = Undefined
  /\ request = NoRequest
  /\ response = NoResponse
  /\ fetches = 0
  /\ fetched = NoFetch
  /\ handled = 0
  /\ census = NoCensus

\* buildPoststratTable(year, censusData) called on an empty table
Init ==
  /\ year \in Years
  /\ censusData \in SeqsUpTo(RowKinds, MaxRows)
  /\ db = {}
  /\ BuildEntry
  /\ NoServer

\* one iteration of the loop over censusData whose try block completes
ProcessDistrict ==
  /\ pc = "rows"
  /\ rowIdx < Len(censusData)
  /\ TryError(censusData[rowIdx + 1]).ok
  /\ cells' = cells \o ProcessRow(year, censusData[rowIdx + 1]).v
  /\ rowIdx' = rowIdx + 1
  /\ UNCHANGED <<year, censusData, pc, skippedDistricts, errors, i,
                 storedCount, db, result, thrown,
                 writes, inserted, serverVars>>

\* one iteration whose try block throws and whose catch block completes
SkipDistrict ==
  /\ pc = "rows"
  /\ rowIdx < Len(censusData)
  /\ LET row == censusData[rowIdx + 1]
         r == TryError(row)
         m == CatchMessage(row)
     IN  /\ ~r.ok
         /\ m.ok
         /\ errors' = Append(errors, <<m.v, r.err>>)
         /\ cells' = cells \o PushedBeforeThrow(year, row)
  /\ skippedDistricts' = skippedDistricts + 1
  /\ rowIdx' = rowIdx + 1
  /\ UNCHANGED <<year, censusData, pc, i, storedCount, db, result, thrown,
                 writes, inserted, serverVars>>

\* one iteration whose catch block throws: the error leaves the function
CatchThrows ==
  /\ pc = "rows"
  /\ rowIdx < Len(censusData)
  /\ LET row == censusData[rowIdx + 1]
         r == TryError(row)
         m == CatchMessage(row)
     IN  /\ ~r.ok
         /\ ~m.ok
         /\ thrown' = m.err
  /\ pc' = "thrown"
  /\ UNCHANGED <<year, censusData, rowIdx, cells, skippedDistricts, errors, i,
                 storedCount, db, result,
                 writes, inserted, serverVars>>

\* the loop over censusData is over: batchSize, storedCount = 0
StartStore ==
  /\ pc = "rows"
  /\ rowIdx = Len(censusData)
  /\ pc' = "store"
  /\ i' = 0
  /\ storedCount' = 0
  /\ UNCHANGED <<year, censusData, rowIdx, cells, skippedDistricts, errors,
                 db, result, thrown,
                 writes, inserted, serverVars>>

\* one iteration of the batch loop
StoreBatch ==
  /\ pc = "store"
  /\ i < Len(cells)
  /\ LET batch == Slice(cells, i)
         after == createMany(db, batch)
     IN  /\ db' = after
         /\ writes' = Append(writes, batch)
         /\ inserted' = inserted + Cardinality(after \ db)
         /\ storedCount' = storedCount + Counted(db, batch)
  /\ i' = i + batchSize
  /\ UNCHANGED <<year, censusData, pc, rowIdx, cells, skippedDistricts, errors,
                 result, thrown,
                 serverVars>>

\* the return statement
ReturnResult ==
  /\ pc = "store"
  /\ i >= Len(cells)
  /\ result' = BuildResult(year, Len(censusData), skippedDistricts, Len(cells),
                           storedCount)
  /\ pc' = "done"
  /\ UNCHANGED <<year, censusData, rowIdx, cells, skippedDistricts, errors, i,
                 storedCount, db, thrown,
                 writes, inserted, serverVars>>

Next ==
  \/ ProcessDistrict
  \/ SkipDistrict
  \/ CatchThrows
  \/ StartStore
  \/ StoreBatch
  \/ ReturnResult

Spec == Init /\ [][Next]_vars

(***************************************************************************)
(* Builds over inputs of the size the census API answers with              *)
(***************************************************************************)
\* n districts with every count present, numbered from first on
Dense(first, n) == [k \in 1..n |-> DenseRow(first + k - 1)]

\* number of cells a district with every count present emits
DenseCells == Len(SexLevels) * Len(AgeLevels) * Len(RaceLevels) * Len(EducationLevels)

\* inputs around the batch boundary: more than one batch, exactly one full
\* batch, one cell more than a batch, more than two batches, with records
\* that are skipped or emit nothing and a district that comes twice, one
\* the build rejects, and one with districts of three regions
BulkInputs ==
  {Dense(1, DenseDistricts),
   Dense(1, batchSize \div DenseCells) \o <<RowFL27>>,
   Dense(1, batchSize \div DenseCells) \o <<RowFL27, RowTX32>>,
   <<RowFips99>> \o Dense(1, DenseDistricts) \o <<RowNY10, RowPR98, DenseRowRevised>>,
   Dense(1, 2 * DenseDistricts),
   <<RowCA12>> \o Dense(1, 3) \o <<RowOH03, Null>>,
   <<RowCA12, RowOH03, RowAK00>> \o Dense(1, 2)}

BulkInit ==
  /\ year \in Years
  /\ censusData \in BulkInputs
  /\ db = {}
  /\ BuildEntry
  /\ NoServer

BulkSpec == BulkInit /\ [][Next]_vars

(***************************************************************************)
(* Builds over records whose try block throws at each of its statements   *)
(***************************************************************************)
\* records that are processed, that fail in parseDistrict, in getRegion, in
\* recodeRace and in the second recodeAge call, and one whose catch block
\* throws
SkipRowKinds == {RowTX32, RowAK00, RowFips99, RowPR98, RowGA06, RowGA05, Null}

SkipInit ==
  /\ year \in Years
  /\ censusData \in SeqsUpTo(SkipRowKinds, MaxRows)
  /\ db = {}
  /\ BuildEntry
  /\ NoServer

SkipSpec == SkipInit /\ [][Next]_vars

(***************************************************************************)
(* Properties                                                              *)
(***************************************************************************)
\* the geography identity of a row resolves: FIPS to state, state to region
Resolved(row) ==
  LET d == parseDistrict(row)
  IN  d.ok /\ getRegion(d.v.state).ok

\* the rows the loop has finished, and those of them that resolved
Finished == 1..rowIdx
FinishedResolved == {k \in Finished : Resolved(censusData[k])}

\* C1: the build never aborts because of one bad record: no error leaves
\* the function, every bad record among the finished rows is counted as
\* skipped, the loop reaches the end of the input, and a Build Result is
\* returned.
C1_BuildNeverAborts ==
  /\ pc # "thrown"
  /\ skippedDistricts = Cardinality(Finished \ FinishedResolved)
  /\ (pc \in {"store", "done"} => rowIdx = Len(censusData))
  /\ (pc = "done" => result.success)

RECURSIVE RunCells(_, _)
RunCells(yr, rows) ==
  IF rows = <<>> THEN <<>>
  ELSE LET r == ProcessRow(yr, Head(rows))
       IN  (IF r.ok THEN r.v ELSE <<>>) \o RunCells(yr, Tail(rows))

\* which rows a run over rows skips, and why
SkipCauses(yr, rows) ==
  {<<k, ResolveGeography(rows[k]).err>> :
     k \in {n \in 1..Len(rows) : ~Resolved(rows[n])}}

RunCompletes(rows) ==
  \A k \in 1..Len(rows) : Resolved(rows[k]) \/ CatchMessage(rows[k]).ok

RunResult(yr, rows) ==
  BuildResult(yr, Len(rows), Cardinality(SkipCauses(yr, rows)),
              Len(RunCells(yr, rows)), Len(RunCells(yr, rows)))

\* C3: what the build returns identifies which geographies were skipped
\* and why: no other input that is answered with the same Build Result
\* and the same cells skips other geographies or for another cause.
C3_SkipCauseReturned ==
  pc = "done" =>
    \A other \in SeqsUpTo(RowKinds, MaxRows) :
      (/\ Len(other) = Len(censusData)
       /\ RunCompletes(other)
       /\ RunResult(year, other) = result
       /\ RunCells(year, other) = cells)
      => SkipCauses(year, other) = SkipCauses(year, censusData)

\* C4: no two cells of one build share the identity key.
C4_KeysUnique ==
  \A m, n \in 1..Len(cells) : m # n => KeyOf(cells[m]) # KeyOf(cells[n])

\* the state code and the district code a row carries, as strings
RawGeography(row) ==
  <<ToStringJS(Get(row, "state").v), ToStringJS(Get(row, "congressional district").v)>>

\* no two finished rows that resolve carry the same state and district code
DistinctGeographies ==
  \A m, n \in FinishedResolved :
    m # n => RawGeography(censusData[m]) # RawGeography(censusData[n])

\* C4, amended: when no two resolved records carry the same state code and
\* district code, no two cells of the build share the identity key.
C4_KeysUniqueForDistinctGeographies ==
  DistinctGeographies => C4_KeysUnique

\* two different geographies have both contributed cells, one of them for
\* both sexes
C4_Witness ==
  /\ DistinctGeographies
  /\ \E m, n \in 1..Len(cells) : cells[m].cd # cells[n].cd
  /\ \E m, n \in 1..Len(cells) :
       /\ cells[m].cd = cells[n].cd
       /\ cells[m].sex # cells[n].sex
       /\ cells[m].ageGroup = cells[n].ageGroup

\* C5: every emitted cell has an integer population strictly above 0.
C5_PopulationPositive ==
  \A n \in 1..Len(cells) :
    cells[n].population.t = "number" /\ cells[n].population.n > 0

\* the counts of one finished row, per dimension
AgeOf(k, sex) == recodeAge(censusData[k], sex)
RaceOf(k) == recodeRace(censusData[k])
EduOf(k) == recodeEducation(censusData[k])

\* the combinations of one geography/sex slice: indices into the age, race
\* and education counts
Combinations ==
  (1..Len(AgeLevels)) \X (1..Len(RaceLevels)) \X (1..Len(EducationLevels))

\* the counts, totals and proportions of one sex of row k
SliceOf(k, sex) ==
  LET ages == AgeOf(k, sex)
      races == RaceOf(k)
      edus == EduOf(k)
  IN  [age |-> ages, race |-> races, edu |-> edus,
       totalAge |-> Total(ages), totalRace |-> Total(races), totalEdu |-> Total(edus),
       ageProp |-> [l \in 1..Len(AgeLevels) |-> Divide(ages[l][2], Total(ages))],
       raceProp |-> [l \in 1..Len(RaceLevels) |-> Divide(races[l][2], Total(races))],
       eduProp |-> [l \in 1..Len(EducationLevels) |-> Divide(edus[l][2], Total(edus))]]

\* the product of combination c in doubles, multiplied left to right,
\* under Math.round
DoublePopulation(sl, c) ==
  MathRound(Times(Times(Times(ToDouble(sl.totalAge), sl.ageProp[c[1]]),
                        sl.raceProp[c[2]]),
                  sl.eduProp[c[3]]))

ZeroTotal(sl) ==
  sl.totalAge = Num(0) \/ sl.totalRace = Num(0) \/ sl.totalEdu = Num(0)

\* a finished geography computed a zero next to a positive population, or
\* NaN, while the build emitted cells
C5_Witness ==
  /\ cells # <<>>
  /\ \E k \in FinishedResolved : \E sex \in {"Female", "Male"} :
       LET sl == SliceOf(k, sex)
           computed == {DoublePopulation(sl, c) : c \in Combinations}
       IN  /\ ~ZeroTotal(sl)
           /\ \/ Num(0) \in computed /\ \E p \in computed : p.t = "number" /\ p.n > 0
              \/ NaN \in computed
  /\ \E k \in FinishedResolved : \E l \in 1..Len(AgeLevels) :
       AgeOf(k, "Female")[l][2].t = "number" /\ AgeOf(k, "Female")[l][2].n < 0

\* the cells in the output that carry the label of row k and the given sex
CellsOf(k, sex) ==
  {n \in 1..Len(cells) :
     cells[n].cd = parseDistrict(censusData[k]).v.cd /\ cells[n].sex = sex}

ZeroMarginal(k, sex) ==
  \/ Total(AgeOf(k, sex)) = Num(0)
  \/ Total(RaceOf(k)) = Num(0)
  \/ Total(EduOf(k)) = Num(0)

\* C6: a geography/sex slice with a zero age, race or education total
\* emits no cell, and the geography is counted as processed, not skipped.
C6_ZeroMarginalEmitsNothing ==
  /\ \A k \in FinishedResolved : \A sex \in {"Female", "Male"} :
       ZeroMarginal(k, sex) => CellsOf(k, sex) = {}
  /\ skippedDistricts = Cardinality(Finished \ FinishedResolved)
  /\ (pc = "done" =>
        result.districtsProcessed = Cardinality(FinishedResolved))

\* a finished build with a geography whose counts cancel to a zero total,
\* and one with a slice without data next to a slice with cells
C6_Witness ==
  /\ pc = "done"
  /\ \E k \in FinishedResolved :
       /\ Total(RaceOf(k)) = Num(0)
       /\ \E r \in 1..Len(RaceLevels) : RaceOf(k)[r][2] # Num(0)
  /\ \E k \in FinishedResolved :
       /\ ZeroMarginal(k, "Male")
       /\ CellsOf(k, "Female") # {}

\* the cells in the output with the label of row k, the given sex and the
\* labels of combination c
CellsAt(k, sex, c) ==
  {n \in CellsOf(k, sex) :
     /\ cells[n].ageGroup = AgeLevels[c[1]]
     /\ cells[n].raceEth = RaceLevels[c[2]]
     /\ cells[n].education = EducationLevels[c[3]]}

\* a cell with population p is emitted for the combination exactly when p
\* is positive, and no cell of the combination has another population
EmittedExactly(k, sex, c, p) ==
  /\ GreaterThanZero(p) => CellsAt(k, sex, c) # {}
  /\ \A n \in CellsAt(k, sex, c) : cells[n].population = p

\* all three marginal totals of the slice are non-zero numbers
NonZeroMarginals(sl) ==
  /\ sl.totalAge.t = "number" /\ sl.totalAge.n # 0
  /\ sl.totalRace.t = "number" /\ sl.totalRace.n # 0
  /\ sl.totalEdu.t = "number" /\ sl.totalEdu.n # 0

RECURSIVE GCD(_, _)
GCD(m, n) == IF n = 0 THEN m ELSE GCD(n, m % n)

\* num / den rounded to the nearest integer, halves away from zero
RoundHalfAway(num, den) ==
  LET q == (2 * Abs(num) + Abs(den)) \div (2 * Abs(den))
  IN  IF (num < 0) # (den < 0) THEN 0 - q ELSE q

\* totalAge x (ageCount/totalAge) x (raceCount/totalRace) x
\* (eduCount/totalEdu) in exact arithmetic, rounded half away from zero;
\* the two ratios are reduced before they are multiplied
ExactPopulation(sl, c) ==
  LET ageCount == sl.age[c[1]][2].n
      raceCount == sl.race[c[2]][2].n
      eduCount == sl.edu[c[3]][2].n
      gr == GCD(Abs(raceCount), Abs(sl.totalRace.n))
      ge == GCD(Abs(eduCount), Abs(sl.totalEdu.n))
  IN  RoundHalfAway(ageCount * (raceCount \div gr) * (eduCount \div ge),
                    (sl.totalRace.n \div gr) * (sl.totalEdu.n \div ge))

\* C7: with all three marginal totals non-zero, the cell population is
\* totalAge x (ageCount/totalAge) x (raceCount/totalRace) x
\* (eduCount/totalEdu) rounded to the nearest integer, halves away from
\* zero, and a cell is emitted with exactly that population when positive.
C7_ExactProductHalfAway ==
  DistinctGeographies =>
    \A k \in FinishedResolved : \A sex \in {"Female", "Male"} :
      LET sl == SliceOf(k, sex)
      IN  NonZeroMarginals(sl) =>
            \A c \in Combinations :
              EmittedExactly(k, sex, c, Num(ExactPopulation(sl, c)))

\* C7, amended: with all three marginal totals non-zero, the cell
\* population is Math.round of the product computed in double precision,
\* left to right (nearest integer, halves toward +Infinity), and a cell is
\* emitted with exactly that population when positive: so it is for every
\* geography of a build that has returned.
C7_DoubleProductMathRound ==
  (pc = "done" /\ DistinctGeographies) =>
    \A k \in FinishedResolved : \A sex \in {"Female", "Male"} :
      LET sl == SliceOf(k, sex)
      IN  NonZeroMarginals(sl) =>
            \A c \in Combinations :
              EmittedExactly(k, sex, c, DoublePopulation(sl, c))

\* a finished build emitted a cell whose product lies halfway between two
\* integers in exact arithmetic, next to a geography with large counts
C7_Witness ==
  /\ pc = "done"
  /\ DistinctGeographies
  /\ \E k \in FinishedResolved : \E sex \in {"Female", "Male"} :
       LET sl == SliceOf(k, sex)
       IN  /\ NonZeroMarginals(sl)
           /\ \E c \in Combinations :
                /\ CellsAt(k, sex, c) # {}
                /\ DoublePopulation(sl, c) # Num(ExactPopulation(sl, c))
  /\ \E n \in 1..Len(cells) : cells[n].population.n >= 1000

\* the raw count fields the three recodes read
CountKeys ==
  {AgeKey(n) : n \in (7..25) \cup (31..49)}
    \cup {RaceKey(n) : n \in {3, 4, 5, 6, 7, 8, 9, 12}}
    \cup {EduKey(n) : n \in 2..25}

\* a raw value that is absent, null, empty or a string without a number
\* at its start
Malformed(raw) ==
  \/ raw.t \in {"undefined", "null"}
  \/ raw.t = "string" /\ raw.s = ""
  \/ /\ raw.t = "string"
     /\ LET p == SkipWhiteSpace(raw.s, 1)
            q == IF p <= Len(raw.s) /\ SubSeq(raw.s, p, p) \in {"+", "-"}
                   THEN p + 1 ELSE p
        IN  ~(q <= Len(raw.s) /\ IsDigit(SubSeq(raw.s, q, q)))

AllCounts(k) ==
  {AgeOf(k, sex)[l][2] : <<sex, l>> \in {"Female", "Male"} \X (1..Len(AgeLevels))}
    \cup {RaceOf(k)[l][2] : l \in 1..Len(RaceLevels)}
    \cup {EduOf(k)[l][2] : l \in 1..Len(EducationLevels)}

\* C8: a missing or malformed raw count field contributes exactly 0 to the
\* category count, and the counts the recodes return are always integers.
C8_MalformedCountsAreZero ==
  \A k \in FinishedResolved :
    /\ \A key \in CountKeys :
         Malformed(Get(censusData[k], key).v) => getValue(censusData[k], key) = Num(0)
    /\ \A count \in AllCounts(k) : count.t = "number"

\* the regions whose state set holds the abbreviation
RegionsOf(abbrev) ==
  {r \in 1..Len(RegionMapping) : abbrev \in RegionMapping[r][2]}

\* C9: every abbreviation the FIPS table produces resolves to exactly one
\* region, no abbreviation is in two regions' sets, and a code in no
\* region's set raises an error.
C9_EveryFipsStateHasOneRegion ==
  \A k \in Finished :
    LET d == parseDistrict(censusData[k])
    IN  d.ok =>
          /\ (d.v.state.t = "string" /\ d.v.state.s \in FipsStates)
               => (getRegion(d.v.state).ok /\ Cardinality(RegionsOf(d.v.state.s)) = 1)
          /\ (d.v.state.t = "string" => Cardinality(RegionsOf(d.v.state.s)) <= 1)
          /\ ((d.v.state.t # "string" \/ RegionsOf(d.v.state.s) = {})
               => ~getRegion(d.v.state).ok)

UpperCase == "ABCDEFGHIJKLMNOPQRSTUVWXYZ"
IsUpper(c) == \E p \in 1..Len(UpperCase) : SubSeq(UpperCase, p, p) = c

\* /^[A-Z]{2}-\d{2}$/
IsStateNN(s) ==
  /\ Len(s) = 5
  /\ IsUpper(SubSeq(s, 1, 1)) /\ IsUpper(SubSeq(s, 2, 2))
  /\ SubSeq(s, 3, 3) = "-"
  /\ IsDigit(SubSeq(s, 4, 4)) /\ IsDigit(SubSeq(s, 5, 5))

\* C10: parseDistrict maps a recognised state code and a district code to
\* the state abbreviation and a label STATE-NN, keeps the at-large code
\* "00", and raises an error for every unrecognised state code.
C10_DistrictLabel ==
  \A k \in Finished :
    LET row == censusData[k]
        fips == Get(row, "state")
        code == Get(row, "congressional district")
        d == parseDistrict(row)
    IN  fips.ok =>
          /\ (ToStringJS(fips.v) \in FipsCodes /\ code.v.t = "string") =>
               /\ d.ok
               /\ d.v.state = FipsLookup(fips.v)
               /\ IsStateNN(d.v.cd.s)
               /\ (code.v = Str("00") => d.v.cdNumber = Str("00"))
          /\ (ToStringJS(fips.v) \notin FipsCodes => ~d.ok)

(***************************************************************************)
(* server.js: POST /api/build/:year and DELETE /api/table/:year            *)
(*                                                                         *)
(* The server handles one build at a time; a delete request is handled at  *)
(* any await of a running build.                                           *)
(***************************************************************************)
\* values of process.env.ADMIN_SECRET: not set, set to nothing, set
Secrets == {Undefined, Str(""), Str("s3cret")}

\* values of req.headers['x-admin-secret']
Headers == {Undefined, Str("s3cret"), Str("guess")}

\* values of req.params.year
YearParams == {"2022", "2023", "1999", "abc"}

\* new Date().getFullYear()
ThisYear == 2026

Requests ==
  [method : {"POST", "DELETE"}, year : YearParams, secret : Headers]

\* what the handler's await of fetchACS1Year completes with: the call
\* throws, or answers with the array of districts; null is the answer of a
\* fetch with nothing to give, which the handler tests for
FetchOutcomes ==
  {Throw("Census API error (404): error: unknown/unsupported vintage"),
   Return(Null),
   Return(Arr(<<>>)),
   Return(Arr(<<RowTX32>>)),
   Return(Arr(<<RowTX32Revised, RowAK00>>)),
   Return(Arr(<<RowFips99, RowTX32>>)),
   Return(Arr(<<RowWI01>>))}

\* the test without its length clause
NoDataAbsentOnly(data) == ~Truthy(data)

\* !censusData || censusData.length === 0
NoData(data) == IF Truthy(data) THEN Len(data.v) = 0 ELSE TRUE

\* the admin check that lets every request through
UnauthorizedNever(env, header) == FALSE

\* !process.env.ADMIN_SECRET || adminSecret !== process.env.ADMIN_SECRET
Unauthorized(env, header) == IF Truthy(env) THEN header # env ELSE TRUE

\* isNaN(year) || year < 2010 || year > new Date().getFullYear()
InvalidBuildYear(y) ==
  IF y.t = "NaN" THEN TRUE ELSE ~(2010 <= y.n /\ y.n <= ThisYear)

\* deleteMany that forgets its where clause
deleteManyEveryYear(store, yr) == {}

\* prisma.poststratCell.deleteMany({ where: { year } }): the rows left
deleteMany(store, yr) == {c \in store : c.year # yr}

\* deleteTable(year): result.count
deleteTable(store, yr) == Cardinality(store \ deleteMany(store, yr))

\* the table of 2023 as an earlier run of the server left it in the
\* database: the example district and the women of Alaska's
StoredTable ==
  {MakeCell(2023, Str("TX"), Str("TX-32"), "18-24", "Male", "White", "BA/BS",
            "South", Num(1000)),
   MakeCell(2023, Str("AK"), Str("AK-00"), "18-24", "Female", "Asian", "Post-Grad",
            "West", Num(4))}

ServerInit ==
  /\ adminSecret \in Secrets
  /\ request = NoRequest
  /\ response = NoResponse
  /\ fetches = 0
  /\ fetched = NoFetch
  /\ handled = 0
  /\ census = NoCensus
  /\ db \in {{}, StoredTable}
  /\ pc = "idle"
  /\ year = 0
  /\ censusData = <<>>
  /\ rowIdx = 0
  /\ cells = <<>>
  /\ skippedDistricts = 0
  /\ errors = <<>>
  /\ i = 0
  /\ storedCount = 0
  /\ result = NoResult
  /\ thrown = NoError
  /\ writes = <<>>
  /\ inserted = 0

\* the call of buildPoststratTable: its locals as on entry
EnterBuild ==
  /\ pc' = "rows"
  /\ rowIdx' = 0
  /\ cells' = <<>>
  /\ skippedDistricts' = 0
  /\ errors' = <<>>
  /\ i' = 0
  /\ storedCount' = 0
  /\ result' = NoResult
  /\ thrown' = NoError
  /\ writes' = <<>>
  /\ inserted' = 0

buildLocals ==
  <<year, censusData, pc, rowIdx, cells, skippedDistricts, errors, i,
    storedCount, result, thrown, writes, inserted>>

\* a request arrives and is answered before the handler awaits anything
Answer(req, status, body) ==
  /\ handled < MaxRequests
  /\ handled' = handled + 1
  /\ request' = req
  /\ response' = [status |-> status, body |-> body]
  /\ UNCHANGED <<adminSecret, census, db, buildLocals>>

\* POST /api/build/:year without the admin secret: 401
BuildUnauthorized ==
  \E req \in Requests :
    /\ req.method = "POST"
    /\ Unauthorized(adminSecret, req.secret)
    /\ Answer(req, 401, "Unauthorized")
    /\ UNCHANGED <<fetches, fetched>>

\* POST /api/build/:year with a year that is no number or out of range: 400
BuildInvalidYear ==
  \E req \in Requests :
    /\ req.method = "POST"
    /\ pc = "idle"
    /\ ~Unauthorized(adminSecret, req.secret)
    /\ InvalidBuildYear(parseIntString(req.year))
    /\ Answer(req, 400, "Invalid year")
    /\ UNCHANGED <<fetches, fetched>>

\* fetchACS1Year throws: the catch block answers 500
BuildFetchFails ==
  \E req \in Requests, outcome \in FetchOutcomes :
    /\ req.method = "POST"
    /\ pc = "idle"
    /\ ~Unauthorized(adminSecret, req.secret)
    /\ ~InvalidBuildYear(parseIntString(req.year))
    /\ ~outcome.ok
    /\ fetches' = fetches + 1
    /\ fetched' = outcome
    /\ Answer(req, 500, outcome.err)

\* fetchACS1Year returns no district: 404
BuildNoData ==
  \E req \in Requests, outcome \in FetchOutcomes :
    /\ req.method = "POST"
    /\ pc = "idle"
    /\ ~Unauthorized(adminSecret, req.secret)
    /\ ~InvalidBuildYear(parseIntString(req.year))
    /\ outcome.ok
    /\ NoData(outcome.v)
    /\ fetches' = fetches + 1
    /\ fetched' = outcome
    /\ Answer(req, 404, "No ACS 1-year data available")

\* fetchACS1Year returns districts: buildPoststratTable(year, censusData)
\* is called
BuildStarts ==
  \E req \in Requests, outcome \in FetchOutcomes :
    /\ req.method = "POST"
    /\ pc = "idle"
    /\ ~Unauthorized(adminSecret, req.secret)
    /\ ~InvalidBuildYear(parseIntString(req.year))
    /\ outcome.ok
    /\ ~NoData(outcome.v)
    /\ handled < MaxRequests
    /\ handled' = handled + 1
    /\ request' = req
    /\ fetches' = fetches + 1
    /\ fetched' = outcome
    /\ year' = parseIntString(req.year).n
    /\ censusData' = outcome.v.v
    /\ EnterBuild
    /\ UNCHANGED <<adminSecret, census, response, db>>

\* buildPoststratTable has returned: res.json({ success, message, ...result })
BuildResponds ==
  /\ pc = "done"
  /\ response' = [status |-> 200, body |-> result]
  /\ pc' = "idle"
  /\ rowIdx' = 0
  /\ cells' = <<>>
  /\ skippedDistricts' = 0
  /\ errors' = <<>>
  /\ i' = 0
  /\ storedCount' = 0
  /\ result' = NoResult
  /\ writes' = <<>>
  /\ inserted' = 0
  /\ UNCHANGED <<year, censusData, thrown, db, adminSecret, request, fetches,
                 fetched, handled, census>>

\* a createMany call of the build is rejected by the database, which stores
\* nothing of its batch: buildPoststratTable rejects and the catch block of
\* the handler answers 500
BuildFails ==
  /\ pc = "store"
  /\ i < Len(cells)
  /\ response' = [status |-> 500, body |-> "Can't reach database server"]
  /\ pc' = "idle"
  /\ rowIdx' = 0
  /\ cells' = <<>>
  /\ skippedDistricts' = 0
  /\ errors' = <<>>
  /\ i' = 0
  /\ storedCount' = 0
  /\ writes' = <<>>
  /\ inserted' = 0
  /\ UNCHANGED <<year, censusData, result, thrown, db, adminSecret, request,
                 fetches, fetched, handled, census>>

\* DELETE /api/table/:year without the admin secret: 401
DeleteUnauthorized ==
  \E req \in Requests :
    /\ req.method = "DELETE"
    /\ Unauthorized(adminSecret, req.secret)
    /\ Answer(req, 401, "Unauthorized - Admin secret required")
    /\ UNCHANGED <<fetches, fetched>>

\* DELETE /api/table/:year with a year that is no number: 400
DeleteInvalidYear ==
  \E req \in Requests :
    /\ req.method = "DELETE"
    /\ ~Unauthorized(adminSecret, req.secret)
    /\ parseIntString(req.year).t = "NaN"
    /\ Answer(req, 400, "Invalid year")
    /\ UNCHANGED <<fetches, fetched>>

\* DELETE /api/table/:year: deleteTable(year), then the count is answered
DeleteTable ==
  \E req \in Requests :
    /\ req.method = "DELETE"
    /\ ~Unauthorized(adminSecret, req.secret)
    /\ parseIntString(req.year).t = "number"
    /\ handled < MaxRequests
    /\ handled' = handled + 1
    /\ request' = req
    /\ db' = deleteMany(db, parseIntString(req.year).n)
    /\ response' = [status |-> 200,
                    body |-> [success |-> TRUE, year |-> parseIntString(req.year).n,
                              deletedCount |-> deleteTable(db, parseIntString(req.year).n)]]
    /\ UNCHANGED <<adminSecret, census, fetches, fetched, buildLocals>>

ServerNext ==
  \/ BuildUnauthorized
  \/ BuildInvalidYear
  \/ BuildFetchFails
  \/ BuildNoData
  \/ BuildStarts
  \/ ProcessDistrict
  \/ SkipDistrict
  \/ StartStore
  \/ StoreBatch
  \/ ReturnResult
  \/ BuildResponds
  \/ BuildFails
  \/ DeleteUnauthorized
  \/ DeleteInvalidYear
  \/ DeleteTable

ServerSpec == ServerInit /\ [][ServerNext]_vars

(***************************************************************************)
(* A delete request during a build of more than one batch                  *)
(***************************************************************************)
\* what the fetch of the running build answered with
InterleavedInputs ==
  {Dense(1, DenseDistricts),
   <<RowFips99>> \o Dense(1, DenseDistricts) \o <<RowFL27>>,
   Dense(1, 2 * DenseDistricts)}

\* POST /api/build/2022 has called buildPoststratTable on an empty table
InterleavedInit ==
  /\ adminSecret = Str("s3cret")
  /\ request = [method |-> "POST", year |-> "2022", secret |-> Str("s3cret")]
  /\ response = NoResponse
  /\ fetches = 1
  /\ censusData \in InterleavedInputs
  /\ fetched = Return(Arr(censusData))
  /\ handled = 1
  /\ census = NoCensus
  /\ year = 2022
  /\ db = {}
  /\ BuildEntry

\* the loop over censusData awaits nothing: another request is handled
\* only while the build awaits createMany, or after it
DeleteAtAwait ==
  /\ pc # "rows"
  /\ DeleteTable

InterleavedNext ==
  \/ ProcessDistrict
  \/ SkipDistrict
  \/ StartStore
  \/ StoreBatch
  \/ ReturnResult
  \/ BuildResponds
  \/ DeleteAtAwait

InterleavedSpec == InterleavedInit /\ [][InterleavedNext]_vars

(***************************************************************************)
(* The three recodes as partitions of the raw buckets                      *)
(***************************************************************************)
\* the row the loop finished last, when it is an object
LastFinished ==
  IF rowIdx > 0 /\ censusData[rowIdx].t = "object" THEN {rowIdx} ELSE {}

\* the labels of the counts a recode returns, in order
LabelsOf(counts) == [l \in 1..Len(counts) |-> counts[l][1]]

\* the sum of the raw fields from..to of one table, as getValue reads them
RangeSum(row, Key(_), from, to) ==
  SumOf([b \in 1..(to - from + 1) |-> getValue(row, Key(from + b - 1))])

\* the row with one more person in the raw field key
Bump(row, key) ==
  LET v == getValue(row, key)
  IN  Obj((key :> Num(IF v.t = "number" THEN v.n + 1 ELSE 1)) @@ row.f)

ChangedLabels(base, probed) ==
  {l \in 1..Len(base) : base[l][2] # probed[l][2]}

\* the person added to a raw field is counted in exactly one label, once
CountedOnce(base, probed) ==
  \E l \in 1..Len(base) :
    /\ ChangedLabels(base, probed) = {l}
    /\ base[l][2].t = "number" => probed[l][2] = Num(base[l][2].n + 1)

\* the B01001 buckets of one sex: 18-19 through 85 and over
SexBuckets(sex) == IF sex = "Male" THEN 7..25 ELSE 31..49

\* C11: for every raw record and each sex, recodeAge returns exactly the
\* six canonical age labels, their counts sum to the sum of the 19 raw
\* B01001 buckets of that sex (007-025 for Male, 031-049 for Female), each
\* such bucket is counted in exactly one label, and no other B01001 field
\* (the total, the under-18 buckets, the other sex) is counted.
C11_AgeBucketsPartition ==
  \A k \in LastFinished : \A sex \in {"Female", "Male"} :
    LET row == censusData[k]
        counts == recodeAge(row, sex)
        from == IF sex = "Male" THEN 7 ELSE 31
    IN  /\ LabelsOf(counts) = <<"18-24", "25-34", "35-44", "45-54", "55-64", "65+">>
        /\ Total(counts) = RangeSum(row, AgeKey, from, from + 18)
        /\ \A n \in 1..49 :
             LET probed == recodeAge(Bump(row, AgeKey(n)), sex)
             IN  IF n \in SexBuckets(sex)
                   THEN CountedOnce(counts, probed)
                   ELSE ChangedLabels(counts, probed) = {}

\* a finished record with people in every age label of both sexes, more
\* men than women or the reverse, and a count for the B01001 total
C11_Witness ==
  \E k \in LastFinished :
    LET men == recodeAge(censusData[k], "Male")
        women == recodeAge(censusData[k], "Female")
    IN  /\ \A l \in 1..6 : men[l][2].n > 0 /\ women[l][2].n > 0
        /\ Total(men) # Total(women)
        /\ getValue(censusData[k], AgeKey(1)).n > 0

\* the count a recode returns under a label
CountOf(counts, label) ==
  counts[CHOOSE l \in 1..Len(counts) : counts[l][1] = label][2]

\* the B03002 fields the recode uses: the non-Hispanic races and Hispanic
RaceFields == {3, 4, 5, 6, 7, 8, 9, 12}

\* C12: for every raw record, recodeRace returns White, Black, Asian and
\* Hispanic each equal to one dedicated raw field (003, 004, 006, 012) and
\* Other equal to the sum of the remaining non-Hispanic race fields (005,
\* 007, 008, 009); the five counts sum to the sum of the eight fields, each
\* counted exactly once, and no other B03002 field is counted.
C12_RaceFieldsPartition ==
  \A k \in LastFinished :
    LET row == censusData[k]
        counts == recodeRace(row)
    IN  /\ {LabelsOf(counts)[l] : l \in 1..Len(counts)}
             = {"White", "Black", "Asian", "Hispanic", "Other"}
        /\ Len(counts) = 5
        /\ CountOf(counts, "White") = getValue(row, RaceKey(3))
        /\ CountOf(counts, "Black") = getValue(row, RaceKey(4))
        /\ CountOf(counts, "Asian") = getValue(row, RaceKey(6))
        /\ CountOf(counts, "Hispanic") = getValue(row, RaceKey(12))
        /\ CountOf(counts, "Other")
             = Plus(Plus(Plus(getValue(row, RaceKey(5)), getValue(row, RaceKey(7))),
                         getValue(row, RaceKey(8))),
                    getValue(row, RaceKey(9)))
        /\ Total(counts)
             = Plus(Plus(RangeSum(row, RaceKey, 3, 4), getValue(row, RaceKey(12))),
                    Plus(getValue(row, RaceKey(6)), CountOf(counts, "Other")))
        /\ \A n \in 1..21 :
             LET probed == recodeRace(Bump(row, RaceKey(n)))
             IN  IF n \in RaceFields
                   THEN CountedOnce(counts, probed)
                   ELSE ChangedLabels(counts, probed) = {}

\* a finished record with people under all five labels and a count for the
\* B03002 total
C12_Witness ==
  \E k \in LastFinished :
    /\ \A l \in 1..5 : recodeRace(censusData[k])[l][2].n > 0
    /\ getValue(censusData[k], RaceKey(1)).n > 0

\* the B15003 ranges of the five education labels, in label order
EduRanges == << <<2, 16>>, <<17, 18>>, <<19, 21>>, <<22, 22>>, <<23, 25>> >>

\* C13: for every raw record, recodeEducation assigns the 24 raw buckets
\* B15003_002..025 to the five education labels as contiguous,
\* non-overlapping ranges in label order (002-016, 017-018, 019-021, 022,
\* 023-025): every bucket is counted in exactly one label, the total 001
\* in none, and the five counts sum to the sum of the 24 buckets.
C13_EducationRangesPartition ==
  \A k \in LastFinished :
    LET row == censusData[k]
        counts == recodeEducation(row)
    IN  /\ LabelsOf(counts)
             = <<"Less Than HS", "High School", "Some College", "BA/BS", "Post-Grad">>
        /\ \A l \in 1..5 :
             counts[l][2] = RangeSum(row, EduKey, EduRanges[l][1], EduRanges[l][2])
        /\ Total(counts) = RangeSum(row, EduKey, 2, 25)
        /\ \A n \in 1..25 :
             LET probed == recodeEducation(Bump(row, EduKey(n)))
             IN  IF n = 1 THEN ChangedLabels(counts, probed) = {}
                 ELSE \E l \in 1..5 :
                        /\ n \in EduRanges[l][1]..EduRanges[l][2]
                        /\ ChangedLabels(counts, probed) = {l}
                        /\ probed[l][2] = Num(counts[l][2].n + 1)

\* a finished record with people in every one of the 24 buckets and a
\* count for the B15003 total
C13_Witness ==
  \E k \in LastFinished :
    /\ \A n \in 1..25 : getValue(censusData[k], EduKey(n)).n > 0
    /\ \A l \in 1..5 : recodeEducation(censusData[k])[l][2].n > 0

(***************************************************************************)
(* The end-to-end example                                                  *)
(***************************************************************************)
\* the example district with an explicit "0" in every other raw field
RowTX32Zeros ==
  Obj(RowTX32.f @@ [key \in DOMAIN DenseCounts |-> Str("0")])

\* the one cell of the example
ExampleCell(yr) ==
  [year |-> yr, state |-> Str("TX"), cd |-> Str("TX-32"), ageGroup |-> "18-24",
   sex |-> "Male", raceEth |-> "White", education |-> "BA/BS",
   censusRegion |-> "South", population |-> Num(1000)]

\* C14: a build over the single district TX-32 whose only non-zero raw
\* fields are male 18-19 = 1000, White alone not Hispanic = 2000 and
\* Bachelor's = 1500 emits exactly one cell (Male, 18-24, White, BA/BS,
\* population 1000), none for Female, and reports one district processed
\* and none skipped; the other raw fields may be absent or "0".
C14_ExampleDistrict ==
  censusData = <<RowTX32>> =>
    /\ rowIdx = 1 => cells = <<ExampleCell(year)>>
    /\ \A n \in 1..Len(cells) : cells[n].sex # "Female"
    /\ pc = "done" =>
         /\ result.districtsProcessed = 1
         /\ result.districtsSkipped = 0
         /\ result.cellsGenerated = 1
         /\ db = {ExampleCell(year)}
    /\ RunCells(year, <<RowTX32Zeros>>) = <<ExampleCell(year)>>
    /\ pc # "thrown"

\* the build over the example district has returned
C14_Witness ==
  /\ censusData = <<RowTX32>>
  /\ pc = "done"
  /\ result.success

(***************************************************************************)
(* Determinism                                                             *)
(***************************************************************************)
\* C15: two builds run on the same year and the same sequence of raw
\* records produce the same cells with the same populations in the same
\* order and the same Build Result counts: whatever the table store held
\* before and whatever requests were answered meanwhile, the cells and the
\* Build Result are those that the year and the records alone determine.
C15_OutputDependsOnInputOnly ==
  pc = "done" =>
    LET expected == RunCells(year, censusData)
    IN  /\ cells = expected
        /\ result = BuildResult(year, Len(censusData),
                                Cardinality(SkipCauses(year, censusData)),
                                Len(expected), Len(expected))

\* a build has returned that found some of its keys in the table store
C15_Witness ==
  /\ pc = "done"
  /\ cells # <<>>
  /\ inserted < Len(cells)
  /\ result.cellsStored = Len(cells)

(***************************************************************************)
(* The batched bulk write                                                  *)
(***************************************************************************)
RECURSIVE Flatten(_)
Flatten(batches) ==
  IF batches = <<>> THEN <<>>
  ELSE Flatten(SubSeq(batches, 1, Len(batches) - 1)) \o batches[Len(batches)]

\* the store after cs was written to it in batches of the given size
RECURSIVE WrittenInBatches(_, _, _, _)
WrittenInBatches(store, cs, from, size) ==
  IF from >= Len(cs) THEN store
  ELSE WrittenInBatches(
         createMany(store, SubSeq(cs, from + 1,
                                  IF from + size < Len(cs) THEN from + size ELSE Len(cs))),
         cs, from + size, size)

\* batch sizes below, at and above the one of the build, and one batch for
\* everything
BatchSizes == {DenseCells, 2500, 4999, 5000, 5001, 20000}

\* C16: the batched bulk write hands the store every generated cell
\* exactly once, in generation order, in batches of at most 5000 cells;
\* the set of cells written is the same for every batch size, and
\* cellsGenerated equals the number of cells handed to the store.
C16_BatchesCoverCellsOnce ==
  /\ pc \in {"store", "done"} =>
       Flatten(writes) = SubSeq(cells, 1, IF i < Len(cells) THEN i ELSE Len(cells))
  /\ \A w \in 1..Len(writes) : Len(writes[w]) \in 1..5000
  /\ pc = "done" =>
       /\ Flatten(writes) = cells
       /\ result.cellsGenerated = Len(Flatten(writes))
       /\ \A size \in BatchSizes : WrittenInBatches({}, cells, 0, size) = db

\* a build has returned that wrote a full batch and a second one, which
\* held keys of the first
C16_Witness ==
  /\ pc = "done"
  /\ Len(writes) = 2
  /\ Len(writes[1]) = 5000
  /\ Cardinality(db) < Len(cells)

(***************************************************************************)
(* The table store under builds and deletes                                *)
(***************************************************************************)
\* the cells of the running build whose key the store holds with another
\* population
Displaced ==
  {n \in 1..Len(cells) :
     \E c \in db : KeyOf(c) = KeyOf(cells[n]) /\ c.population # cells[n].population}

\* C17: after any sequence of build and delete-by-year operations the
\* table store holds at most one cell per identity key (year, state, cd,
\* ageGroup, sex, raceEth, education, censusRegion); a build whose cells
\* collide with stored keys does not fail and stores no second cell for a
\* key.
C17_StoreKeysUnique ==
  /\ \A c, d \in db : KeyOf(c) = KeyOf(d) => c = d
  /\ pc # "thrown" /\ thrown = NoError
  /\ (pc = "done" /\ inserted < Len(cells)) => result.success

\* a build has returned whose cells met stored cells of the same key and
\* another population, and added others
C17_Witness ==
  /\ pc = "done"
  /\ Displaced # {}
  /\ inserted > 0
  /\ inserted < Len(cells)

C19_YearScopedEffects ==
  [][
      /\ (handled' # handled /\ request'.method = "DELETE" /\ response'.status = 200) =>
           (LET y == parseIntString(request'.year).n
            IN  /\ db' = {c \in db : c.year # y}
                /\ response'.body.year = y
                /\ response'.body.deletedCount = Cardinality({c \in db : c.year = y}))
      /\ (handled' = handled) =>
           (/\ \A c \in db' \ db : c.year = year
            /\ {c \in db : c.year # year} = {c \in db' : c.year # year})
    ]_vars

\* a delete has removed the cells a build stored and has left the cells of
\* another year
C19_Witness ==
  /\ request # NoRequest
  /\ request.method = "DELETE"
  /\ response.status = 200
  /\ "deletedCount" \in DOMAIN response.body
  /\ response.body.deletedCount > 0
  /\ fetches > 0
  /\ pc = "idle"
  /\ db # {}

(***************************************************************************)
(* The admin secret                                                        *)
(***************************************************************************)
\* C20: a POST /api/build/:year or DELETE /api/table/:year request whose
\* X-Admin-Secret header differs from the configured ADMIN_SECRET, or any
\* such request when ADMIN_SECRET is not configured, is answered 401,
\* triggers no census fetch, starts no build and leaves the table store
\* unchanged.
C20_WrongSecretIsRejected ==
  [][
      (/\ handled' # handled
       /\ \/ adminSecret = Undefined
          \/ request'.secret # adminSecret) =>
        (/\ response'.status = 401
         /\ fetches' = fetches
         /\ db' = db
         /\ pc' = pc
         /\ cells' = cells)
    ]_vars

\* with a secret configured and cells in the store, a build request with
\* another secret has been answered 401 after a request with the secret
\* was served
C20_Witness ==
  /\ adminSecret = Str("s3cret")
  /\ request # NoRequest
  /\ request.method = "POST"
  /\ request.secret = Str("guess")
  /\ response.status = 401
  /\ fetches > 0
  /\ db # {}

(***************************************************************************)
(* What the build handler answers when the fetch or the build fails        *)
(***************************************************************************)
\* the fetch completed with no record: nothing, or an array of none
YieldsNoRecords(outcome) ==
  IF outcome.ok THEN outcome.v \in {Null, Undefined, Arr(<<>>)} ELSE FALSE

\* C21: when the census fetch of an authorised build request yields no
\* records (empty or absent) the handler answers 404, does not call the
\* build and leaves the store unchanged; when the fetch throws or the build
\* throws it answers 500; it fetches once per request and enters a build
\* only on a new request, so nothing is retried.
C21_NoDataAndFailuresReported ==
  [][
      /\ (fetches' # fetches) =>
           (/\ fetches' = fetches + 1
            /\ handled' = handled + 1
            /\ request'.method = "POST"
            /\ YieldsNoRecords(fetched') =>
                 (/\ response'.status = 404
                  /\ db' = db
                  /\ pc = "idle" /\ pc' = "idle"
                  /\ writes' = writes)
            /\ ~fetched'.ok =>
                 (/\ response'.status = 500
                  /\ response'.body = fetched'.err
                  /\ db' = db
                  /\ pc = "idle" /\ pc' = "idle"))
      /\ (pc = "store" /\ pc' = "idle") =>
           (/\ response'.status = 500
            /\ db' = db
            /\ fetches' = fetches
            /\ handled' = handled)
      /\ (pc # "rows" /\ pc' = "rows") =>
           (/\ handled' = handled + 1
            /\ fetches' = fetches + 1
            /\ ~YieldsNoRecords(fetched'))
    ]_vars

\* a build request whose fetch gave an empty array has been answered 404
\* over a store with cells, after a request whose fetch or build threw
C21_Witness ==
  /\ request # NoRequest
  /\ request.method = "POST"
  /\ response.status = 404
  /\ fetched = Return(Arr(<<>>))
  /\ fetches = 2
  /\ db # {}

(***************************************************************************)
(* Cells against the recode specification                                  *)
(***************************************************************************)
Members(seq) == {seq[k] : k \in 1..Len(seq)}

StartsWith(s, prefix) ==
  IF Len(s) >= Len(prefix) THEN SubSeq(s, 1, Len(prefix)) = prefix ELSE FALSE

WellFormed(c) ==
  /\ c.ageGroup \in Members(AgeLevels)
  /\ c.sex \in Members(SexLevels)
  /\ c.raceEth \in Members(RaceLevels)
  /\ c.education \in Members(EducationLevels)
  /\ c.censusRegion \in Members(RegionLevels)
  /\ c.state.t = "string"
  /\ {RegionMapping[k][1] : k \in {r \in 1..Len(RegionMapping) :
                                     c.state.s \in RegionMapping[r][2]}}
       = {c.censusRegion}
  /\ c.cd.t = "string"
  /\ StartsWith(c.cd.s, c.state.s)

\* the sizes of the label sets the loops of the build run over
IteratedDimensions ==
  [ageGroups |-> Len(AgeLabels), sexes |-> Len(Sexes), raceEth |-> Len(RaceLabels),
   education |-> Len(EducationLabels), censusRegions |-> Len(RegionMapping)]

\* C22: every cell the build emits is well formed against the recode
\* specification: its ageGroup, sex, raceEth and education are labels of
\* the specification for their dimension, its censusRegion is the region
\* whose state set contains its state, its cd starts with its state
\* abbreviation; and the dimensions of the Build Result, 6, 2, 5, 5, 5, are
\* the sizes of the label sets the build iterates.
C22_CellsWellFormed ==
  [][
      /\ Len(cells') >= Len(cells)
      /\ SubSeq(cells', 1, Len(cells)) = cells
      /\ \A n \in (Len(cells) + 1)..Len(cells') : WellFormed(cells'[n])
      /\ (pc' = "done") =>
           (/\ result'.dimensions = IteratedDimensions
            /\ result'.dimensions =
                 [ageGroups |-> 6, sexes |-> 2, raceEth |-> 5, education |-> 5,
                  censusRegions |-> 5])
    ]_vars

\* a build has returned cells that carry every label of every dimension,
\* from districts of three regions
C22_Witness ==
  /\ pc = "done"
  /\ {cells[n].ageGroup : n \in 1..Len(cells)} = Members(AgeLevels)
  /\ {cells[n].sex : n \in 1..Len(cells)} = Members(SexLevels)
  /\ {cells[n].raceEth : n \in 1..Len(cells)} = Members(RaceLevels)
  /\ {cells[n].education : n \in 1..Len(cells)} = Members(EducationLevels)
  /\ Cardinality({cells[n].censusRegion : n \in 1..Len(cells)}) >= 3
  /\ result.cellsGenerated = Len(cells)

(***************************************************************************)
(* Skipped geographies                                                     *)
(***************************************************************************)
\* the cells that carry the state and the district label of a record
CellsOfGeography(row) ==
  LET d == parseDistrict(row)
  IN  IF d.ok
        THEN {n \in 1..Len(cells) : cells[n].state = d.v.state /\ cells[n].cd = d.v.cd}
        ELSE {}

\* C23: a geography that is counted as skipped contributes no cell: no
\* emitted cell carries the state and district of a record whose try block
\* threw.
C23_SkippedContributesNoCell ==
  \A k \in Finished :
    IF TryError(censusData[k]).ok THEN TRUE
    ELSE CellsOfGeography(censusData[k]) = {}

(***************************************************************************)
(* The stored count the build reports                                      *)
(***************************************************************************)
\* C24: the cellsStored a build returns is the number of cells that build
\* added to the table store, whatever the store held before, cells of the
\* same identity keys included.
C24_CellsStoredIsCellsAdded ==
  pc = "done" => result.cellsStored = inserted

(***************************************************************************)
(* A delete between two batches of a build                                 *)
(***************************************************************************)
\* the cells of the year of the build the store holds
StoredOfYear == {c \in db : c.year = year}

\* C25: when a deleteTable(Y) request is handled during a build for year
\* Y, then once both have finished the store holds for year Y every cell
\* the build generated or none of them, never a non-empty strict subset
\* while the build reports success with cellsStored = cellsGenerated.
C25_DeleteDuringBuildAllOrNothing ==
  (/\ pc = "done"
   /\ request.method = "DELETE"
   /\ response.status = 200
   /\ parseIntString(request.year).n = year
   /\ result.success
   /\ result.cellsStored = result.cellsGenerated) =>
    \/ StoredOfYear = {}
    \/ StoredOfYear = {cells[n] : n \in 1..Len(cells)}

(***************************************************************************)
(* censusClient.js: fetchACS1Year                                          *)
(***************************************************************************)
MAX_VARS_PER_REQUEST == 45

\* Object.values(CENSUS_VARIABLES).flat()
allVariables == CENSUS_VARIABLES

\* batches.push(allVariables.slice(i, i + MAX_VARS_PER_REQUEST))
VariableBatches ==
  [b \in 1..((Len(allVariables) + MAX_VARS_PER_REQUEST - 1) \div MAX_VARS_PER_REQUEST) |->
     SubSeq(allVariables, (b - 1) * MAX_VARS_PER_REQUEST + 1,
            IF b * MAX_VARS_PER_REQUEST < Len(allVariables)
              THEN b * MAX_VARS_PER_REQUEST ELSE Len(allVariables))]

\* the districts of Texas the API knows, and the estimate it holds for a
\* variable of a district: the number of the district before the digits of
\* DenseCounts
ApiGeographies == 1..MaxGeographies
ApiValue(g, key) == Str(ToString(g) \o DenseCounts[key].s)

\* the object rows.map builds from one row of a response to the request for
\* the variables of batch: NAME, the variables, state, congressional district
ApiRow(g, batch) ==
  Obj(("NAME" :> Str("Congressional District " \o ToString(g) \o ", Texas"))
      @@ [key \in Members(batch) |-> ApiValue(g, key)]
      @@ ("state" :> Str("48")) @@ ("congressional district" :> Str(DistrictCode(g))))

\* what the API answers one request with: an error status, or rows of
\* districts in any order
ApiOutcomes ==
  {Throw("Census API error (500): Internal Server Error")}
    \cup {Return(rows) : rows \in SeqsUpTo(ApiGeographies, MaxApiRows)}

GeographyFields == {"NAME", "state", "congressional district"}

SameDistrict(d, e) ==
  /\ d.f["state"] = e.f["state"]
  /\ d.f["congressional district"] = e.f["congressional district"]

\* the merge of one district of a later batch: mergedDistricts.find, then
\* every key but NAME, state and congressional district is assigned; a
\* district find does not come up with changes nothing
MergeDistrict(merged, newDistrict) ==
  LET found == {k \in 1..Len(merged) : SameDistrict(merged[k], newDistrict)}
      first == CHOOSE k \in found : \A j \in found : k <= j
      assigned == [key \in (DOMAIN newDistrict.f) \ GeographyFields |-> newDistrict.f[key]]
  IN  IF found = {} THEN merged
      ELSE [merged EXCEPT ![first] = Obj(assigned @@ merged[first].f)]

RECURSIVE MergeDistricts(_, _, _)
MergeDistricts(merged, districts, k) ==
  IF k > Len(districts) THEN merged
  ELSE MergeDistricts(MergeDistrict(merged, districts[k]), districts, k + 1)

\* the loop over the batches from batch b on; mergedDistricts is null until
\* the first batch is in
RECURSIVE FetchBatches(_, _, _)
FetchBatches(responses, b, mergedDistricts) ==
  IF b > Len(VariableBatches) THEN Return(mergedDistricts)
  ELSE IF ~responses[b].ok THEN responses[b]
  ELSE LET districts == [k \in 1..Len(responses[b].v) |->
                          ApiRow(responses[b].v[k], VariableBatches[b])]
       IN  FetchBatches(responses, b + 1,
                        IF mergedDistricts = Null THEN Arr(districts)
                        ELSE Arr(MergeDistricts(mergedDistricts.v, districts, 1)))

fetchACS1Year(apiKey, responses) ==
  IF ~Truthy(apiKey) THEN Throw("CENSUS_API_KEY environment variable not set")
  ELSE FetchBatches(responses, 1, Null)

\* the server before fetchACS1Year is called, with and without an API key,
\* and the API answering each of the requests in every way
FetchInit ==
  /\ census \in [apiKey : {Undefined, Str("key")},
                  responses : [1..Len(VariableBatches) -> ApiOutcomes]]
  /\ adminSecret = Str("s3cret")
  /\ request = NoRequest
  /\ response = NoResponse
  /\ fetches = 0
  /\ fetched = NoFetch
  /\ handled = 0
  /\ db = {}
  /\ pc = "idle"
  /\ year = 0
  /\ censusData = <<>>
  /\ rowIdx = 0
  /\ cells = <<>>
  /\ skippedDistricts = 0
  /\ errors = <<>>
  /\ i = 0
  /\ storedCount = 0
  /\ result = NoResult
  /\ thrown = NoError
  /\ writes = <<>>
  /\ inserted = 0

\* one call of fetchACS1Year
FetchDistricts ==
  /\ fetches = 0
  /\ fetches' = 1
  /\ fetched' = fetchACS1Year(census.apiKey, census.responses)
  /\ UNCHANGED <<adminSecret, request, response, handled, census, db, buildLocals>>

FetchNext == FetchDistricts

FetchSpec == FetchInit /\ [][FetchNext]_vars

\* the districts of the response to the request of batch b
Answered(b) ==
  IF census.responses[b].ok
    THEN {census.responses[b].v[k] : k \in 1..Len(census.responses[b].v)}
    ELSE {}

GeographyOf(d) ==
  CHOOSE g \in ApiGeographies : d.f["congressional district"] = Str(DistrictCode(g))

\* C26: fetchACS1Year splits the variables into batches of at most 45 with
\* every variable in exactly one batch; when every request is answered it
\* returns exactly one record for every district that is in any response,
\* in whatever order the rows came, each with the values of that district
\* from every batch that holds it and with no value of another district;
\* when a request fails it throws and returns nothing.
C26_FetchBatchesAndMerges ==
  /\ \A b \in 1..Len(VariableBatches) : Len(VariableBatches[b]) <= MAX_VARS_PER_REQUEST
  /\ \A v \in 1..Len(allVariables) :
       Cardinality({<<b, k>> \in (1..Len(VariableBatches)) \X (1..MAX_VARS_PER_REQUEST) :
                      IF k <= Len(VariableBatches[b])
                        THEN VariableBatches[b][k] = allVariables[v] ELSE FALSE}) = 1
  /\ (fetches = 1 /\ Truthy(census.apiKey)) =>
       IF \E b \in 1..Len(VariableBatches) : ~census.responses[b].ok
         THEN ~fetched.ok
         ELSE /\ fetched.ok
              /\ LET records == fetched.v.v
                 IN  /\ {GeographyOf(records[k]) : k \in 1..Len(records)}
                          = UNION {Answered(b) : b \in 1..Len(VariableBatches)}
                     /\ \A j, k \in 1..Len(records) :
                          SameDistrict(records[j], records[k]) => j = k
                     /\ \A k \in 1..Len(records) : \A b \in 1..Len(VariableBatches) :
                          GeographyOf(records[k]) \in Answered(b) =>
                            \A key \in Members(VariableBatches[b]) :
                              IF key \in DOMAIN records[k].f
                                THEN records[k].f[key] = ApiValue(GeographyOf(records[k]), key)
                                ELSE FALSE
                     /\ \A k \in 1..Len(records) :
                          \A key \in (DOMAIN records[k].f) \ GeographyFields :
                            records[k].f[key] = ApiValue(GeographyOf(records[k]), key)

====
